---- MODULE Spec2Model ----
(***************************************************************************)
(* State-machine model of the PoB load balancer (src/lb): the worker       *)
(* registry, the smooth weighted round-robin selector, the /request        *)
(* dispatch loop with bounded retry and temporary disabling, the health    *)
(* prober, the auto-weight controller and the control endpoints that       *)
(* change weights, the weight mode and the experiment counters.            *)
(*                                                                         *)
(* Python's Optional[T] is modelled as a sequence: <<>> is None and <<v>>  *)
(* is the value v.  Floats that the code only adds and compares            *)
(* (time.time(), disabled_until) are integers in seconds; the latency      *)
(* average is an exact rational [n, d].  Every `await` of a handler is a   *)
(* scheduling point, so a handler is one action per stretch of code        *)
(* between two awaits.                                                     *)
(***************************************************************************)
EXTENDS Integers, Sequences, FiniteSets, TLC

VARIABLES
    workers,         \* rt.workers: the registry, a list of WorkerState records
    weight_mode,     \* rt.weight_mode: "manual" or "auto"
    now,             \* time.time(), in whole seconds
    RETRY_ATTEMPTS,  \* LB_RETRY_ATTEMPTS as read from the environment
    reqs,            \* the /request handlers: position and locals of each
    nctl,            \* control-plane and timer operations the run has left
    ctl_resp,        \* the answer of the latest control-plane call
    harness,         \* a direct caller of SmoothWRR.choose(): call count, last result
    history,         \* rt.history: None when the runtime object has no such attribute
    RT,              \* worker/app.py RT: one worker's configuration, counters and faults
    hreqs,           \* that worker's /handle handlers: position and locals of each
    CgState,         \* clientgen/app.py STATE (a reserved word here): the generator's flag, task and counters
    cgtasks,         \* the generator's _traffic_loop tasks and /stop handlers
    lock,            \* SmoothWRR.lock: the task holding it, None when free
    procs            \* the tasks that go through the selector's lock, step by step

vars == <<workers, weight_mode, now, RETRY_ATTEMPTS, reqs, nctl, ctl_resp, harness,
          history, RT, hreqs, CgState, cgtasks, lock, procs>>

(* What is outside the load balancer and the worker: the client generator, *)
(* and the selector's lock where the lock is not followed step by step.    *)
Others == <<CgState, cgtasks, lock, procs>>

----------------------------------------------------------------------------
(* Bounds of the model.                                                    *)

MaxWeight == 5      \* weights drawn for the selector runs: 1..MaxWeight
MaxCalls == 32      \* choose() calls of a selector run
MaxReq == 1         \* concurrent /request handlers
MaxTime == 3        \* the clock runs 0..MaxTime
MaxCtl == 1         \* probes and resets beside the concurrent requests
MaxCtlW == 2        \* control-plane operations of a weight-plane run
MaxReqS == 2        \* /request handlers of a statistics run
MaxCtlR == 2        \* probes and resets of a reset run
MaxH == 2           \* concurrent /handle handlers of a worker
MaxCtlK == 2        \* control calls made to a worker

(* Program constants.                                                      *)

DISABLE_ON_FAIL_SEC == 3
AUTO_WEIGHT_MAX == 10
TEST_CALLS == 5000

None == <<>>
Some(v) == <<v>>
Max(a, b) == IF a >= b THEN a ELSE b
Abs(a) == IF a >= 0 THEN a ELSE -a

(* The LB runs have no worker process in view.                             *)
NoWorker == <<>>

(* No client generator in view, and the selector's lock not followed.      *)
Idle ==
    /\ CgState = <<>>
    /\ cgtasks = <<>>
    /\ lock = <<>>
    /\ procs = <<>>

RECURSIVE Gcd(_, _)
Gcd(a, b) == IF b = 0 THEN a ELSE Gcd(b, a % b)

RECURSIVE SumOver(_, _)
SumOver(f, S) ==
    IF S = {} THEN 0
    ELSE LET x == CHOOSE y \in S : TRUE IN f[x] + SumOver(f, S \ {x})

----------------------------------------------------------------------------
(* lb/core/registry.py                                                     *)

(* A worker URL, http://<host>:8000, kept in its parts.                    *)
Url(host) == [scheme |-> "http://", host |-> host, port |-> 8000]

(* u.replace("http://", "").replace("https://", "").split(":")[0]          *)
HostOf(url) == url.host

(* The host names of WORKER_URLS and the worker_id each worker's /health   *)
(* reports.                                                                *)
Host(i) == "w" \o ToString(i)
ReportedId(i) == "worker-" \o ToString(i)

WorkerState(id, url) ==
    [ id |-> id, url |-> url,
      reported_weight |-> 1, manual_weight |-> None, auto_weight |-> None,
      effective_weight |-> 1,
      current_weight |-> 0, online |-> TRUE, disabled_until |-> 0,
      assigned |-> 0, ok |-> 0, fail |-> 0,
      avg_latency_ms |-> [n |-> 0, d |-> 1],
      last_error |-> None, last_seen |-> 0, reported_base_lat_ms |-> None ]

(* Variant of eligible() that ignores the disable window.                  *)
eligible_NoWindow(w, t) ==
    w.online /\ w.effective_weight > 0

eligible(w, t) ==
    w.online /\ w.effective_weight > 0 /\ t >= w.disabled_until

recompute_effective(w, mode) ==
    LET x == IF mode = "manual"
             THEN (IF w.manual_weight # None THEN w.manual_weight[1]
                                             ELSE w.reported_weight)
             ELSE IF mode = "auto"
             THEN (IF w.auto_weight # None THEN w.auto_weight[1]
                                           ELSE w.reported_weight)
             ELSE w.reported_weight
    IN [w EXCEPT !.effective_weight = Max(1, x)]

----------------------------------------------------------------------------
(* lb/core/smooth_wrr.py                                                   *)

(* The list comprehension: the eligible workers, in registry order.        *)
EligibleList(ws, t) ==
    SelectSeq([i \in 1..Len(ws) |-> i], LAMBDA i : eligible(ws[i], t))

(* Variant of the loop in which a later worker wins a tie (>= for >).      *)
RECURSIVE ChooseLoop_TieLast(_, _, _, _)
ChooseLoop_TieLast(ws, elig, k, best) ==
    IF k > Len(elig) THEN [ws |-> ws, best |-> best]
    ELSE LET i == elig[k]
             ws1 == [ws EXCEPT ![i].current_weight = @ + ws[i].effective_weight]
             b1 == IF best = 0 \/ ws1[i].current_weight >= ws1[best].current_weight
                   THEN i ELSE best
         IN ChooseLoop_TieLast(ws1, elig, k + 1, b1)

(* The for loop of choose(): add effective_weight to each eligible         *)
(* worker's current_weight, keeping the first strict maximum as best.      *)
RECURSIVE ChooseLoop(_, _, _, _)
ChooseLoop(ws, elig, k, best) ==
    IF k > Len(elig) THEN [ws |-> ws, best |-> best]
    ELSE LET i == elig[k]
             ws1 == [ws EXCEPT ![i].current_weight = @ + ws[i].effective_weight]
             b1 == IF best = 0 \/ ws1[i].current_weight > ws1[best].current_weight
                   THEN i ELSE best
         IN ChooseLoop(ws1, elig, k + 1, b1)

(* The sum of the eligible workers' effective weights.                     *)
EligibleTotal(ws, elig) ==
    SumOver([k \in 1..Len(elig) |-> ws[elig[k]].effective_weight], 1..Len(elig))

(* Variant of choose() that takes the chosen worker's own weight, not the  *)
(* eligible total, off its current_weight.                                 *)
Choose_SubtractOwn(ws, t) ==
    LET elig == EligibleList(ws, t) IN
    IF Len(elig) = 0 THEN [ws |-> ws, best |-> 0]
    ELSE LET r == ChooseLoop(ws, elig, 1, 0)
         IN [ ws |-> [r.ws EXCEPT
                         ![r.best].current_weight = @ - ws[r.best].effective_weight,
                         ![r.best].assigned = @ + 1],
              best |-> r.best ]

(* Variant of choose() that adds 1, not effective_weight, per round (plain *)
(* round-robin over the eligible workers).                                 *)
Choose_Unweighted(ws, t) ==
    LET elig == EligibleList(ws, t)
        flat == [i \in 1..Len(ws) |-> [ws[i] EXCEPT !.effective_weight = 1]]
    IN
    IF Len(elig) = 0 THEN [ws |-> ws, best |-> 0]
    ELSE LET r == ChooseLoop(flat, elig, 1, 0)
         IN [ ws |-> [i \in 1..Len(ws) |->
                        [ws[i] EXCEPT
                           !.current_weight = r.ws[i].current_weight
                                              - (IF i = r.best THEN Len(elig) ELSE 0),
                           !.assigned = @ + (IF i = r.best THEN 1 ELSE 0)]],
              best |-> r.best ]

(* choose(): best = 0 stands for the None it returns.                      *)
Choose(ws, t) ==
    LET elig == EligibleList(ws, t) IN
    IF Len(elig) = 0 THEN [ws |-> ws, best |-> 0]
    ELSE LET total == EligibleTotal(ws, elig)
             r == ChooseLoop(ws, elig, 1, 0)
         IN [ ws |-> [r.ws EXCEPT ![r.best].current_weight = @ - total,
                                  ![r.best].assigned = @ + 1],
              best |-> r.best ]

----------------------------------------------------------------------------
(* lb/app.py: statistics helpers.  A latency is a rational n/d with d > 0. *)

Rat(n, d) == LET g == Gcd(Abs(n), d) IN [n |-> n \div g, d |-> d \div g]
RatLeq(a, b) == a.n * b.d <= b.n * a.d

(* _ewma(prev, new, alpha) with alpha = ALPHA_NUM / ALPHA_DEN              *)
ALPHA_NUM == 1
ALPHA_DEN == 5

(* Variant that attenuates the first sample too.                           *)
_ewma_NoSeed(prev, new) ==
    Rat(ALPHA_NUM * new * prev.d + (ALPHA_DEN - ALPHA_NUM) * prev.n,
        ALPHA_DEN * prev.d)

_ewma(prev, new) ==
    IF prev.n <= 0 THEN Rat(new, 1)
    ELSE Rat(ALPHA_NUM * new * prev.d + (ALPHA_DEN - ALPHA_NUM) * prev.n,
             ALPHA_DEN * prev.d)

(* Variant that closes the window at once.                                 *)
_disable_NoWindow(w, t) == [w EXCEPT !.disabled_until = t]

_disable_temporarily(w, t) == [w EXCEPT !.disabled_until = t + DISABLE_ON_FAIL_SEC]

_record_success(w, latency_ms) ==
    [w EXCEPT !.ok = @ + 1,
              !.avg_latency_ms = _ewma(w.avg_latency_ms, latency_ms),
              !.last_error = None]

_record_failure(w, err) == [w EXCEPT !.fail = @ + 1, !.last_error = Some(err)]

(* The error strings the dispatch and the prober format.                   *)
HttpErr(status) == "http " \o ToString(status)
ForwardErr(e) == "forward: " \o e
HealthErr(e) == "health: " \o e
AllFailed(last_err) ==
    "All attempts failed: " \o (IF last_err = None THEN "None" ELSE last_err[1])

(* _compute_auto_weights: the score of an online worker, as a rational.    *)
AutoLat(w) ==
    LET l1 == IF w.avg_latency_ms.n <= 0 /\ w.reported_base_lat_ms # None
              THEN Rat(w.reported_base_lat_ms[1], 1) ELSE w.avg_latency_ms
    IN IF l1.n <= 0 THEN Rat(50, 1) ELSE l1

AutoScore(w) ==
    LET total == Max(1, w.ok + w.fail)
        lat == AutoLat(w)
        s == Rat(lat.d * (total - w.fail), (lat.n + lat.d) * total)
    IN IF s.n < 0 THEN Rat(0, 1) ELSE s

(* Python's round(): to the nearest integer, a tie to the even one.        *)
RoundHalfEven(p, q) ==
    LET f == p \div q
        r == p % q
    IN IF 2 * r < q THEN f
       ELSE IF 2 * r > q THEN f + 1
       ELSE IF f % 2 = 0 THEN f ELSE f + 1

(* Variant of the computation without the floor of 1.                     *)
_compute_auto_weights_NoFloor(ws) ==
    LET online == {i \in 1..Len(ws) : ws[i].online}
        best == CHOOSE i \in online : \A j \in online : RatLeq(AutoScore(ws[j]), AutoScore(ws[i]))
        max_score == IF AutoScore(ws[best]).n = 0 THEN Rat(1, 1) ELSE AutoScore(ws[best])
        aw(i) == LET s == AutoScore(ws[i])
                 IN RoundHalfEven(AUTO_WEIGHT_MAX * s.n * max_score.d, s.d * max_score.n)
    IN IF online = {} THEN ws
       ELSE [i \in 1..Len(ws) |->
               IF i \in online THEN [ws[i] EXCEPT !.auto_weight = Some(aw(i))]
               ELSE ws[i]]

_compute_auto_weights(ws) ==
    LET online == {i \in 1..Len(ws) : ws[i].online}
        best == CHOOSE i \in online : \A j \in online : RatLeq(AutoScore(ws[j]), AutoScore(ws[i]))
        max_score == IF AutoScore(ws[best]).n = 0 THEN Rat(1, 1) ELSE AutoScore(ws[best])
        aw(i) == LET s == AutoScore(ws[i])
                 IN Max(1, RoundHalfEven(AUTO_WEIGHT_MAX * s.n * max_score.d,
                                         s.d * max_score.n))
    IN IF online = {} THEN ws
       ELSE [i \in 1..Len(ws) |->
               IF i \in online THEN [ws[i] EXCEPT !.auto_weight = Some(aw(i))]
               ELSE ws[i]]

RecomputeAll(ws, mode) == [i \in 1..Len(ws) |-> recompute_effective(ws[i], mode)]

(* lb/control/weights.py: _find_worker, 0 for None.                        *)
RECURSIVE FindFrom(_, _, _)
FindFrom(ws, worker_id, i) ==
    IF i > Len(ws) THEN 0
    ELSE IF ws[i].id = worker_id \/ HostOf(ws[i].url) = worker_id THEN i
    ELSE FindFrom(ws, worker_id, i + 1)

_find_worker(ws, worker_id) == FindFrom(ws, worker_id, 1)

----------------------------------------------------------------------------
(* A selector run, as tests/test_smooth_wrr.py drives it: the registry is  *)
(* built with the given reported weights, recompute_effective("manual")    *)
(* is applied, and choose() is called in a loop with nothing else running. *)

IdleReqs(n) == [r \in 1..n |->
    [pc |-> "idle", attempt |-> 0, w |-> 0, last_err |-> None,
     log |-> <<>>, status |-> 0, detail |-> None, resp |-> None]]

TestWorker(i, weight, online) ==
    [recompute_effective([WorkerState(Host(i), Url(Host(i))) EXCEPT
                              !.reported_weight = weight], "manual")
        EXCEPT !.online = online]

InitWRR ==
    /\ \E wt \in [1..3 -> 1..MaxWeight], on \in [1..3 -> BOOLEAN] :
          workers = [i \in 1..3 |-> TestWorker(i, wt[i], on[i])]
    /\ weight_mode = "manual"
    /\ now = 0
    /\ RETRY_ATTEMPTS = 2
    /\ reqs = IdleReqs(1)
    /\ nctl = 0
    /\ ctl_resp = None
    /\ harness = [ncalls |-> 0, limit |-> MaxCalls, ret |-> 0,
                  since |-> [i \in 1..3 |-> 0]]
    /\ history = None
    /\ RT = NoWorker
    /\ hreqs = <<>>
    /\ Idle

HarnessChoose ==
    /\ harness.ncalls < harness.limit
    /\ LET r == Choose(workers, now) IN
         /\ workers' = r.ws
         /\ harness' = [harness EXCEPT
                           !.ncalls = @ + 1,
                           !.ret = r.best,
                           !.since = [i \in DOMAIN @ |->
                                         IF i = r.best THEN 0 ELSE @[i] + 1]]
    /\ UNCHANGED <<weight_mode, now, RETRY_ATTEMPTS, reqs, nctl, ctl_resp, history, RT, hreqs, Others>>

SpecWRR == InitWRR /\ [][HarnessChoose]_vars

(* The run of test_smooth_wrr_distribution_roughly_matches_weights: all    *)
(* workers online, n = 5000 calls, with the weights 5, 3, 2 of the test    *)
(* and every weight vector over 1..MaxWeightL.                             *)
MaxWeightL == 4

InitWRRLong ==
    /\ \E wt \in [1..3 -> 1..MaxWeightL] \cup {<<5, 3, 2>>} :
          workers = [i \in 1..3 |-> TestWorker(i, wt[i], TRUE)]
    /\ weight_mode = "manual"
    /\ now = 0
    /\ RETRY_ATTEMPTS = 2
    /\ reqs = IdleReqs(1)
    /\ nctl = 0
    /\ ctl_resp = None
    /\ harness = [ncalls |-> 0, limit |-> TEST_CALLS, ret |-> 0,
                  since |-> [i \in 1..3 |-> 0]]
    /\ history = None
    /\ RT = NoWorker
    /\ hreqs = <<>>
    /\ Idle

SpecWRRLong == InitWRRLong /\ [][HarnessChoose]_vars

----------------------------------------------------------------------------
(* The running load balancer.  The registry is built by lifespan() from    *)
(* WORKER_URLS (one or two workers), LB_WEIGHT_MODE and LB_RETRY_ATTEMPTS   *)
(* are read from the environment.                                          *)

PoolSizes == {1, 2}
Modes == {"manual", "auto"}
RetryChoices == {0, 1, 2}
NoHarness == [ncalls |-> 0, limit |-> 0, ret |-> 0, since |-> <<>>]

Init ==
    /\ \E n \in PoolSizes :
          workers = [i \in 1..n |->
                       recompute_effective(WorkerState(Host(i), Url(Host(i))), "manual")]
    /\ weight_mode = "manual"
    /\ now = 0
    /\ RETRY_ATTEMPTS \in RetryChoices
    /\ reqs = IdleReqs(MaxReq)
    /\ nctl = MaxCtl
    /\ ctl_resp = None
    /\ harness = NoHarness
    /\ history = None
    /\ RT = NoWorker
    /\ hreqs = <<>>
    /\ Idle

(* time.time() advances.  The clock is read only against disabled_until   *)
(* (and stamped into last_seen), so it is advanced only while some         *)
(* worker's disable window is open.                                        *)
Tick ==
    /\ now < MaxTime
    /\ \E i \in 1..Len(workers) : now < workers[i].disabled_until
    /\ now' = now + 1
    /\ UNCHANGED <<workers, weight_mode, RETRY_ATTEMPTS, reqs, nctl, ctl_resp, harness, history, RT, hreqs, Others>>

(* --- POST /request ----------------------------------------------------- *)

MaxAttempts == Max(1, RETRY_ATTEMPTS)

(* What forward_handle can come back with: (status, body, ms) or raise.    *)
ForwardOutcomes ==
    { [raised |-> None, status |-> 200, ms |-> 10],
      [raised |-> None, status |-> 404, ms |-> 10],
      [raised |-> None, status |-> 500, ms |-> 10],
      [raised |-> Some("timeout"), status |-> 0, ms |-> 0] }

(* The same with a second latency sample.                                  *)
ForwardOutcomesW ==
    ForwardOutcomes \cup { [raised |-> None, status |-> 200, ms |-> 100] }

BodyOf(out) == <<"body", out.status>>

(* if 200 <= status < 300, and if status >= 500                            *)
Is2xx(status) == 200 <= status /\ status < 300

Transient_From400(status) == status >= 400

Transient(status) == status >= 500

LBResponse(w, attempt, out) ==
    [chosen_worker |-> w.id, attempt |-> attempt, worker_status |-> out.status,
     lb_forward_ms |-> out.ms, worker_body |-> BodyOf(out)]

(* Variant of the loop top that goes round again when choose() is None.   *)
ReqChoose_RetryOnNone(r) ==
    /\ reqs[r].pc \in {"idle", "loop"}
    /\ IF r = 1 THEN TRUE ELSE reqs[r - 1].pc # "idle"
    /\ LET c == Choose(workers, now) IN
         /\ workers' = c.ws
         /\ reqs' = [reqs EXCEPT ![r] =
               IF c.best = 0
               THEN (IF @.attempt + 1 < MaxAttempts
                     THEN [@ EXCEPT !.pc = "loop", !.attempt = @ + 1, !.w = 0]
                     ELSE [@ EXCEPT !.pc = "done", !.attempt = @ + 1, !.w = 0,
                                    !.status = 503,
                                    !.detail = Some("No eligible workers")])
               ELSE [@ EXCEPT !.pc = "forward", !.attempt = @ + 1, !.w = c.best]]
    /\ UNCHANGED <<weight_mode, now, RETRY_ATTEMPTS, nctl, ctl_resp, harness, history, RT, hreqs, Others>>

(* The top of the for loop: attempt k, w = await rt.balancer.choose(), 503 *)
(* when it is None, else the forward is issued.  Handlers are numbered in  *)
(* their order of arrival.                                                 *)
ReqChoose(r) ==
    /\ reqs[r].pc \in {"idle", "loop"}
    /\ IF r = 1 THEN TRUE ELSE reqs[r - 1].pc # "idle"
    /\ LET c == Choose(workers, now) IN
         /\ workers' = c.ws
         /\ reqs' = [reqs EXCEPT ![r] =
               IF c.best = 0
               THEN [@ EXCEPT !.pc = "done", !.attempt = @ + 1, !.w = 0,
                              !.status = 503,
                              !.detail = Some("No eligible workers")]
               ELSE [@ EXCEPT !.pc = "forward", !.attempt = @ + 1, !.w = c.best]]
    /\ UNCHANGED <<weight_mode, now, RETRY_ATTEMPTS, nctl, ctl_resp, harness, history, RT, hreqs, Others>>

(* Variant of `continue` whose 502 carries the error of the attempt        *)
(* before.                                                                 *)
Continue_StaleErr(q, err) ==
    IF q.attempt < MaxAttempts
    THEN [q EXCEPT !.pc = "loop", !.last_err = Some(err)]
    ELSE [q EXCEPT !.pc = "done", !.last_err = Some(err), !.status = 502,
                   !.detail = Some(AllFailed(q.last_err))]

(* Variant of `continue` in a loop without a bound.                        *)
Continue_Unbounded(q, err) == [q EXCEPT !.pc = "loop", !.last_err = Some(err)]

(* `continue`: the next attempt, or the 502 after the loop.                *)
Continue(q, err) ==
    IF q.attempt < MaxAttempts
    THEN [q EXCEPT !.pc = "loop", !.last_err = Some(err)]
    ELSE [q EXCEPT !.pc = "done", !.last_err = Some(err), !.status = 502,
                   !.detail = Some(AllFailed(Some(err)))]

(* forward_handle comes back: the rest of the loop body.                   *)
ReqForwardReturn(r, out) ==
    /\ reqs[r].pc = "forward"
    /\ LET i == reqs[r].w
           w == workers[i]
           q == [reqs[r] EXCEPT !.log = Append(@, [w |-> i, out |-> out])]
       IN
       IF out.raised # None
       THEN LET err == ForwardErr(out.raised[1]) IN
            /\ workers' = [workers EXCEPT ![i] =
                              _disable_temporarily(_record_failure(w, err), now)]
            /\ reqs' = [reqs EXCEPT ![r] = Continue(q, err)]
       ELSE IF Is2xx(out.status)
       THEN /\ workers' = [workers EXCEPT ![i] = _record_success(w, out.ms)]
            /\ reqs' = [reqs EXCEPT ![r] =
                           [q EXCEPT !.pc = "done", !.status = 200,
                                     !.resp = Some(LBResponse(w, q.attempt, out))]]
       ELSE LET err == HttpErr(out.status) IN
            IF Transient(out.status)
            THEN /\ workers' = [workers EXCEPT ![i] =
                                   _disable_temporarily(_record_failure(w, err), now)]
                 /\ reqs' = [reqs EXCEPT ![r] = Continue(q, err)]
            ELSE /\ workers' = [workers EXCEPT ![i] = _record_failure(w, err)]
                 /\ reqs' = [reqs EXCEPT ![r] =
                                [q EXCEPT !.pc = "done", !.status = 200,
                                          !.last_err = Some(err),
                                          !.resp = Some(LBResponse(w, q.attempt, out))]]
    /\ UNCHANGED <<weight_mode, now, RETRY_ATTEMPTS, nctl, ctl_resp, harness, history, RT, hreqs, Others>>

(* --- health prober ----------------------------------------------------- *)

(* What one probe of worker i can yield: an exception, or the JSON of      *)
(* GET /health, whose worker_id, weight and base_lat_ms keys may be absent.*)
BasicHealthResults ==
    { [err |-> Some("down"), worker_id |-> None, weight |-> None, base_lat_ms |-> None],
      [err |-> None, worker_id |-> None, weight |-> None, base_lat_ms |-> None] }

HealthResults(i) ==
    BasicHealthResults \cup
    { [err |-> None, worker_id |-> Some(ReportedId(i)), weight |-> Some(0),
       base_lat_ms |-> Some(20)],
      [err |-> None, worker_id |-> Some(ReportedId(i)), weight |-> Some(2),
       base_lat_ms |-> Some(20)] }

(* The results of one round of probes, one per worker.                     *)
BasicProbes == [1..Len(workers) -> BasicHealthResults]
AllProbes ==
    {res \in [1..Len(workers) -> UNION {HealthResults(i) : i \in 1..Len(workers)}] :
        \A i \in 1..Len(workers) : res[i] \in HealthResults(i)}

(* Variant of the loop body that starts a worker that answers from a      *)
(* current_weight of 0.                                                    *)
ApplyProbe_ZeroOnReturn(w, res, mode, t) ==
    IF res.err # None
    THEN [w EXCEPT !.online = FALSE, !.last_error = Some(HealthErr(res.err[1]))]
    ELSE recompute_effective(
           [w EXCEPT !.online = TRUE, !.last_seen = t, !.last_error = None,
                     !.current_weight = 0,
                     !.id = IF res.worker_id # None THEN res.worker_id[1] ELSE @,
                     !.reported_weight =
                         IF res.weight # None THEN Max(1, res.weight[1]) ELSE @,
                     !.reported_base_lat_ms =
                         IF res.base_lat_ms # None THEN res.base_lat_ms ELSE @],
           mode)

(* The body of the `for w, data, err in results` loop for one worker.      *)
ApplyProbe(w, res, mode, t) ==
    IF res.err # None
    THEN [w EXCEPT !.online = FALSE, !.last_error = Some(HealthErr(res.err[1]))]
    ELSE recompute_effective(
           [w EXCEPT !.online = TRUE, !.last_seen = t, !.last_error = None,
                     !.id = IF res.worker_id # None THEN res.worker_id[1] ELSE @,
                     !.reported_weight =
                         IF res.weight # None THEN Max(1, res.weight[1]) ELSE @,
                     !.reported_base_lat_ms =
                         IF res.base_lat_ms # None THEN res.base_lat_ms ELSE @],
           mode)

(* Variant of the tick in which the first failed probe ends the loop: the  *)
(* workers after it are not updated.                                       *)
HealthTick_AbortOnFailure(res) ==
    /\ nctl > 0
    /\ workers' = [i \in 1..Len(workers) |->
                      IF \E j \in 1..(i - 1) : res[j].err # None
                        THEN workers[i]
                        ELSE ApplyProbe(workers[i], res[i], weight_mode, now)]
    /\ nctl' = nctl - 1
    /\ UNCHANGED <<weight_mode, now, RETRY_ATTEMPTS, reqs, ctl_resp, harness, history, RT, hreqs, Others>>

(* _refresh_health_once, from the moment the probes have all come back.    *)
HealthTick(res) ==
    /\ nctl > 0
    /\ workers' = [i \in 1..Len(workers) |->
                      ApplyProbe(workers[i], res[i], weight_mode, now)]
    /\ nctl' = nctl - 1
    /\ UNCHANGED <<weight_mode, now, RETRY_ATTEMPTS, reqs, ctl_resp, harness, history, RT, hreqs, Others>>

(* --- auto-weight controller -------------------------------------------- *)

(* Variant of the round that does not look at the mode.                    *)
AutoTick_AnyMode ==
    /\ nctl > 0
    /\ workers' = RecomputeAll(_compute_auto_weights(workers), weight_mode)
    /\ nctl' = nctl - 1
    /\ UNCHANGED <<weight_mode, now, RETRY_ATTEMPTS, reqs, ctl_resp, harness, history, RT, hreqs, Others>>

(* One round of _auto_loop after its sleep.                                *)
AutoTick ==
    /\ nctl > 0
    /\ workers' = IF weight_mode # "auto" THEN workers
                  ELSE RecomputeAll(_compute_auto_weights(workers), weight_mode)
    /\ nctl' = nctl - 1
    /\ UNCHANGED <<weight_mode, now, RETRY_ATTEMPTS, reqs, ctl_resp, harness, history, RT, hreqs, Others>>

(* --- lb/control/weights.py --------------------------------------------- *)

WorkerIdInputs ==
    {Host(i) : i \in 1..2} \cup {ReportedId(i) : i \in 1..2} \cup {"nobody"}
ManualWeightInputs == {1, 3}

(* Variant of POST /lb/weight-mode that leaves effective_weight alone.     *)
set_weight_mode_NoRecompute(mode) ==
    /\ nctl > 0
    /\ weight_mode' = mode
    /\ ctl_resp' = Some([op |-> "weight-mode", status |-> 200])
    /\ nctl' = nctl - 1
    /\ UNCHANGED <<workers, now, RETRY_ATTEMPTS, reqs, harness, history, RT, hreqs, Others>>

(* POST /lb/weight-mode                                                    *)
set_weight_mode(mode) ==
    /\ nctl > 0
    /\ weight_mode' = mode
    /\ workers' = RecomputeAll(workers, mode)
    /\ ctl_resp' = Some([op |-> "weight-mode", status |-> 200])
    /\ nctl' = nctl - 1
    /\ UNCHANGED <<now, RETRY_ATTEMPTS, reqs, harness, history, RT, hreqs, Others>>

(* Variant of the PATCH that does not look at the mode.                    *)
set_manual_weight_AnyMode(worker_id, weight) ==
    /\ nctl > 0
    /\ LET i == _find_worker(workers, worker_id) IN
         IF i = 0
         THEN /\ ctl_resp' = Some([op |-> "set-manual", status |-> 404])
              /\ UNCHANGED workers
         ELSE /\ workers' = [workers EXCEPT ![i] =
                   recompute_effective([@ EXCEPT !.manual_weight = Some(weight)],
                                       weight_mode)]
              /\ ctl_resp' = Some([op |-> "set-manual", status |-> 200])
    /\ nctl' = nctl - 1
    /\ UNCHANGED <<weight_mode, now, RETRY_ATTEMPTS, reqs, harness, history, RT, hreqs, Others>>

(* PATCH /workers/{worker_id}/manual-weight                                *)
set_manual_weight(worker_id, weight) ==
    /\ nctl > 0
    /\ LET i == _find_worker(workers, worker_id) IN
         IF i = 0
         THEN /\ ctl_resp' = Some([op |-> "set-manual", status |-> 404])
              /\ UNCHANGED workers
         ELSE IF weight_mode # "manual"
         THEN /\ ctl_resp' = Some([op |-> "set-manual", status |-> 409])
              /\ UNCHANGED workers
         ELSE /\ workers' = [workers EXCEPT ![i] =
                   recompute_effective([@ EXCEPT !.manual_weight = Some(weight)],
                                       weight_mode)]
              /\ ctl_resp' = Some([op |-> "set-manual", status |-> 200])
    /\ nctl' = nctl - 1
    /\ UNCHANGED <<weight_mode, now, RETRY_ATTEMPTS, reqs, harness, history, RT, hreqs, Others>>

(* DELETE /workers/{worker_id}/manual-weight                               *)
clear_manual_weight(worker_id) ==
    /\ nctl > 0
    /\ LET i == _find_worker(workers, worker_id) IN
         IF i = 0
         THEN /\ ctl_resp' = Some([op |-> "clear-manual", status |-> 404])
              /\ UNCHANGED workers
         ELSE /\ workers' = [workers EXCEPT ![i] =
                   recompute_effective([@ EXCEPT !.manual_weight = None], weight_mode)]
              /\ ctl_resp' = Some([op |-> "clear-manual", status |-> 200])
    /\ nctl' = nctl - 1
    /\ UNCHANGED <<weight_mode, now, RETRY_ATTEMPTS, reqs, harness, history, RT, hreqs, Others>>

(* --- lb/control/worker_config.py --------------------------------------- *)

(* What PATCH {w.url}/config can come back with: an error, or a config.    *)
ConfigResponses ==
    { [err |-> TRUE, weight |-> 0, base_lat_ms |-> 0],
      [err |-> FALSE, weight |-> 0, base_lat_ms |-> 0],
      [err |-> FALSE, weight |-> 3, base_lat_ms |-> 20] }

(* PATCH /workers/{worker_id}/config with a non-empty patch, from the      *)
(* moment the worker has answered.                                         *)
patch_worker_config(worker_id, resp) ==
    /\ nctl > 0
    /\ LET i == _find_worker(workers, worker_id) IN
         IF i = 0
         THEN /\ ctl_resp' = Some([op |-> "patch-config", status |-> 404])
              /\ UNCHANGED workers
         ELSE IF resp.err
         THEN /\ ctl_resp' = Some([op |-> "patch-config", status |-> 502])
              /\ UNCHANGED workers
         ELSE /\ workers' = [workers EXCEPT ![i] =
                   recompute_effective(
                       [@ EXCEPT !.reported_weight = Max(1, resp.weight),
                                 !.reported_base_lat_ms = Some(resp.base_lat_ms),
                                 !.last_error = None],
                       weight_mode)]
              /\ ctl_resp' = Some([op |-> "patch-config", status |-> 200])
    /\ nctl' = nctl - 1
    /\ UNCHANGED <<weight_mode, now, RETRY_ATTEMPTS, reqs, harness, history, RT, hreqs, Others>>

(* --- lb/control/experiment.py ------------------------------------------ *)

ResetWorker(w) ==
    [w EXCEPT !.assigned = 0, !.ok = 0, !.fail = 0,
              !.avg_latency_ms = [n |-> 0, d |-> 1],
              !.current_weight = 0, !.disabled_until = 0,
              !.last_error = IF w.online THEN None ELSE @]

(* How the downstream calls of a reset went: clientgen /stop, clientgen    *)
(* /reset and each worker's /metrics/reset (TRUE: it returned, FALSE: it   *)
(* raised).                                                                *)
ResetInputs ==
    [stop : BOOLEAN, reset : BOOLEAN, wk : [1..Len(workers) -> BOOLEAN]]
ResetInputsOk ==
    {inp \in ResetInputs : inp.stop /\ inp.reset /\ \A i \in DOMAIN inp.wk : inp.wk[i]}

ResetResult(target, id, ok) == [target |-> target, id |-> id, ok |-> ok]

(* The results list, in the order the handler appends to it.  The history  *)
(* block raises AttributeError, which is caught, when rt has no            *)
(* history_lock.                                                           *)
ResetResults(inp) ==
    <<ResetResult("clientgen", "stop", inp.stop),
      ResetResult("clientgen", "reset", inp.reset)>>
    \o [i \in 1..Len(workers) |-> ResetResult("worker", workers[i].id, inp.wk[i])]
    \o <<ResetResult("lb", "runtime_stats", TRUE),
         ResetResult("lb", "history", history # None)>>

(* POST /experiment/reset, from the moment the downstream calls have come  *)
(* back: the block under rt.balancer.lock, the history block and the       *)
(* response.                                                               *)
reset_experiment(inp) ==
    /\ nctl > 0
    /\ workers' = [i \in 1..Len(workers) |-> ResetWorker(workers[i])]
    /\ history' = IF history # None THEN Some(<<>>) ELSE history
    /\ LET results == ResetResults(inp) IN
         ctl_resp' = Some([op |-> "reset", status |-> 200,
                           ok |-> \A k \in 1..Len(results) : results[k].ok,
                           results |-> results])
    /\ nctl' = nctl - 1
    /\ UNCHANGED <<weight_mode, now, RETRY_ATTEMPTS, reqs, harness, RT, hreqs, Others>>

(* The dispatch engine and what changes eligibility under it: the clock    *)
(* and the health prober.  The experiment reset is interleaved with the    *)
(* dispatch in SpecReset.                                                  *)
Next ==
    \/ Tick
    \/ \E r \in DOMAIN reqs : ReqChoose(r)
    \/ \E r \in DOMAIN reqs, out \in ForwardOutcomes : ReqForwardReturn(r, out)
    \/ \E res \in BasicProbes : HealthTick(res)

Spec == Init /\ [][Next]_vars

(* The weight plane: one /request handler feeding the statistics, the      *)
(* prober, the auto-weight controller and every endpoint that changes a    *)
(* weight or the mode.                                                     *)
InitWeights ==
    /\ \E n \in PoolSizes, m \in Modes :
          /\ workers = [i \in 1..n |->
                          recompute_effective(WorkerState(Host(i), Url(Host(i))), m)]
          /\ weight_mode = m
    /\ now = 0
    /\ RETRY_ATTEMPTS = 1
    /\ reqs = IdleReqs(1)
    /\ nctl = MaxCtlW
    /\ ctl_resp = None
    /\ harness = NoHarness
    /\ history = None
    /\ RT = NoWorker
    /\ hreqs = <<>>
    /\ Idle

NextWeights ==
    \/ \E r \in DOMAIN reqs : ReqChoose(r)
    \/ \E r \in DOMAIN reqs, out \in ForwardOutcomesW : ReqForwardReturn(r, out)
    \/ \E res \in AllProbes : HealthTick(res)
    \/ AutoTick
    \/ \E m \in Modes : set_weight_mode(m)
    \/ \E id \in WorkerIdInputs, x \in ManualWeightInputs : set_manual_weight(id, x)
    \/ \E id \in WorkerIdInputs : clear_manual_weight(id)
    \/ \E id \in WorkerIdInputs, resp \in ConfigResponses : patch_worker_config(id, resp)
    \/ \E inp \in ResetInputsOk : reset_experiment(inp)

SpecWeights == InitWeights /\ [][NextWeights]_vars

(* The experiment reset with every outcome of its downstream calls, on a   *)
(* runtime as lifespan() builds it (no history attribute) or as            *)
(* tests/test_lb_experiment_reset.py builds it (a history of one sample),  *)
(* after requests and probes have filled the counters.                     *)
Histories == {None, Some(<<[ts |-> 1]>>)}

InitReset ==
    /\ \E n \in PoolSizes :
          workers = [i \in 1..n |->
                       recompute_effective(WorkerState(Host(i), Url(Host(i))), "manual")]
    /\ weight_mode = "manual"
    /\ now = 0
    /\ RETRY_ATTEMPTS = 2
    /\ reqs = IdleReqs(1)
    /\ nctl = MaxCtlR
    /\ ctl_resp = None
    /\ harness = NoHarness
    /\ history \in Histories
    /\ RT = NoWorker
    /\ hreqs = <<>>
    /\ Idle

NextReset ==
    \/ \E r \in DOMAIN reqs : ReqChoose(r)
    \/ \E r \in DOMAIN reqs, out \in ForwardOutcomes : ReqForwardReturn(r, out)
    \/ \E res \in BasicProbes : HealthTick(res)
    \/ \E inp \in ResetInputs : reset_experiment(inp)

SpecReset == InitReset /\ [][NextReset]_vars

(* The statistics of successive and concurrent /request handlers with two  *)
(* latency samples, the registry otherwise left alone.                     *)
InitStats ==
    /\ \E n \in PoolSizes :
          workers = [i \in 1..n |->
                       recompute_effective(WorkerState(Host(i), Url(Host(i))), "manual")]
    /\ weight_mode = "manual"
    /\ now = 0
    /\ RETRY_ATTEMPTS \in RetryChoices \cup {-1}
    /\ reqs = IdleReqs(MaxReqS)
    /\ nctl = 0
    /\ ctl_resp = None
    /\ harness = NoHarness
    /\ history = None
    /\ RT = NoWorker
    /\ hreqs = <<>>
    /\ Idle

NextStats ==
    \/ \E r \in DOMAIN reqs : ReqChoose(r)
    \/ \E r \in DOMAIN reqs, out \in ForwardOutcomesW : ReqForwardReturn(r, out)

SpecStats == InitStats /\ [][NextStats]_vars

(* The same handlers under the event loop's scheduling: a handler that is  *)
(* ready to run is run, and every forward returns or times out.            *)
SpecRetry ==
    /\ InitStats
    /\ [][NextStats]_vars
    /\ \A r \in 1..MaxReqS :
          /\ WF_vars(ReqChoose(r))
          /\ WF_vars(\E out \in ForwardOutcomesW : ReqForwardReturn(r, out))

----------------------------------------------------------------------------
(* worker/faults.py.  A probability is kept in percent; a fault's spec is  *)
(* the model_dump() of its create request, with the fields of the other    *)
(* kinds left at their zero.                                               *)

FaultSpec(kind, mode, status_code, delay_ms, probability, duration_sec) ==
    [kind |-> kind, mode |-> mode, status_code |-> status_code,
     delay_ms |-> delay_ms, burn_ms |-> 0, sleep_ms |-> 5000,
     message |-> "fault: error",
     probability |-> probability, duration_sec |-> duration_sec]

DelayFaultCreate(delay_ms, probability, duration_sec) ==
    FaultSpec("delay", "", 0, delay_ms, probability, duration_sec)
DropFaultCreate(mode, status_code, probability, duration_sec) ==
    FaultSpec("drop", mode, status_code, 0, probability, duration_sec)
CorruptFaultCreate(mode, probability, duration_sec) ==
    FaultSpec("corrupt", mode, 0, 0, probability, duration_sec)

(* The kinds the FaultCreate union discriminates.                          *)
FaultCreateKinds == {"delay", "drop", "corrupt"}

Fault(id, kind, created_at, expires_at, spec) ==
    [id |-> id, kind |-> kind, created_at |-> created_at,
     expires_at |-> expires_at, spec |-> spec]

(* Variant of the purge that drops nothing.                                *)
purge_expired_Never(fs, t) == fs

purge_expired(fs, t) ==
    SelectSeq(fs, LAMBDA f : f.expires_at = None \/ f.expires_at[1] > t)

(* list_views and snapshot_active: what they return; both leave            *)
(* purge_expired(fs, t) as the registry.                                   *)
list_views(fs, t) == purge_expired(fs, t)
snapshot_active(fs, t) == purge_expired(fs, t)

(* uuid.uuid4().hex[:12], the n-th id drawn.                               *)
FaultId(n) == "f" \o ToString(n)

add(fs, fc, t, fid) ==
    Append(fs, Fault(fid, fc.kind, t,
                     IF fc.duration_sec # None THEN Some(t + fc.duration_sec[1])
                     ELSE None,
                     fc))

(* Variant that empties the registry when the id is found.                 *)
delete_All(fs, fault_id) ==
    IF \E i \in DOMAIN fs : fs[i].id = fault_id THEN <<>> ELSE fs

delete(fs, fault_id) == SelectSeq(fs, LAMBDA f : f.id # fault_id)

(* should_trigger: the values it can return.                               *)
should_trigger(probability) ==
    IF probability >= 100 THEN {TRUE}
    ELSE IF probability <= 0 THEN {FALSE}
    ELSE BOOLEAN

----------------------------------------------------------------------------
(* worker/app.py                                                           *)

OfKind(active_faults, kind) == SelectSeq(active_faults, LAMBDA f : f.kind = kind)

(* The sums a loop `if should_trigger(prob): total += amount` can reach.   *)
RECURSIVE SumsFrom(_, _)
SumsFrom(amounts, k) ==
    IF k > Len(amounts) THEN {0}
    ELSE {(IF b THEN amounts[k].amount ELSE 0) + rest :
             b \in should_trigger(amounts[k].probability),
             rest \in SumsFrom(amounts, k + 1)}

(* Variant that applies only the first delay fault that fires.             *)
_sum_delay_ms_First(active_faults) ==
    LET ks == OfKind(active_faults, "delay")
        may(k) == TRUE \in should_trigger(ks[k].spec.probability)
        maynot(k) == FALSE \in should_trigger(ks[k].spec.probability)
    IN {ks[k].spec.delay_ms : k \in {k \in 1..Len(ks) :
                               may(k) /\ \A j \in 1..(k - 1) : maynot(j)}}
       \cup (IF \A j \in 1..Len(ks) : maynot(j) THEN {0} ELSE {})

_sum_delay_ms(active_faults) ==
    LET ks == OfKind(active_faults, "delay") IN
    {Max(0, total) : total \in
        SumsFrom([k \in 1..Len(ks) |-> [amount |-> ks[k].spec.delay_ms,
                                        probability |-> ks[k].spec.probability]], 1)}

_sum_cpu_burn_ms(active_faults) ==
    LET ks == OfKind(active_faults, "cpu_burn") IN
    {Max(0, total) : total \in
        SumsFrom([k \in 1..Len(ks) |-> [amount |-> ks[k].spec.burn_ms,
                                        probability |-> ks[k].spec.probability]], 1)}

(* The returns a loop `if should_trigger(prob): return f` can make: the    *)
(* first fault of the kind that fires, None when none does.                *)
PickFirst(active_faults, kind) ==
    LET ks == OfKind(active_faults, kind)
        may(k) == TRUE \in should_trigger(ks[k].spec.probability)
        maynot(k) == FALSE \in should_trigger(ks[k].spec.probability)
    IN {Some(ks[k]) : k \in {k \in 1..Len(ks) :
                               may(k) /\ \A j \in 1..(k - 1) : maynot(j)}}
       \cup (IF \A j \in 1..Len(ks) : maynot(j) THEN {None} ELSE {})

(* Variant in which no drop fault is looked at.                            *)
_pick_drop_None(active_faults) == {None}

_pick_drop(active_faults) == PickFirst(active_faults, "drop")
_pick_corrupt(active_faults) == PickFirst(active_faults, "corrupt")
_pick_error(active_faults) == PickFirst(active_faults, "error")

WorkerConfig(capacity) ==
    [base_lat_ms |-> 0, jitter_ms |-> 0, capacity |-> capacity, weight |-> 1]

(* RT = Runtime(cfg=_cfg_from_env()); uuids counts the fault ids drawn.    *)
Runtime(cfg) ==
    [cfg |-> cfg, inflight |-> 0, total |-> 0, ok |-> 0, fail |-> 0,
     last_error |-> None, last_simulated_ms |-> None,
     last_completed_at |-> None, faults |-> <<>>, uuids |-> 0]

IdleHandlers(n) == [h \in 1..n |->
    [pc |-> "idle", active_faults |-> <<>>, drop |-> None, cfg |-> None,
     admitted |-> FALSE, simulated |-> 0, status |-> 0, body |-> ""]]

Capacities == {1, 2}

InitWorker ==
    /\ workers = <<>>
    /\ weight_mode = "manual"
    /\ now = 0
    /\ RETRY_ATTEMPTS = 2
    /\ reqs = <<>>
    /\ nctl = MaxCtlK
    /\ ctl_resp = None
    /\ harness = NoHarness
    /\ history = None
    /\ \E c \in Capacities : RT = Runtime(WorkerConfig(c))
    /\ hreqs = IdleHandlers(MaxH)
    /\ Idle

LBVars == <<workers, weight_mode, RETRY_ATTEMPTS, reqs, harness, history, Others>>

(* time.time() advances.  The worker reads the clock against expires_at,   *)
(* so it is advanced only while the registry holds a fault that has an     *)
(* expiry not yet passed.                                                  *)
WorkerTick ==
    /\ now < MaxTime
    /\ \E k \in 1..Len(RT.faults) :
          RT.faults[k].expires_at # None /\ now <= RT.faults[k].expires_at[1]
    /\ now' = now + 1
    /\ UNCHANGED <<LBVars, nctl, ctl_resp, RT, hreqs, Others>>

(* Variant of the exit that leaves inflight as it is.                      *)
ExitInflight_Skip(rt) == rt

(* The finally block: RT.inflight = max(0, RT.inflight - 1).               *)
ExitInflight(rt) == [rt EXCEPT !.inflight = Max(0, @ - 1)]

(* Variant of the admission test that lets one request too many in.        *)
OverCapacity_Strict(rt, cfg) == rt.inflight > cfg.capacity

(* The admission test: if RT.inflight >= cfg.capacity.                     *)
OverCapacity(rt, cfg) == rt.inflight >= cfg.capacity

(* Variant in which the except block counts the HTTPException too.         *)
DropTimeoutCount_Twice(rt) ==
    [rt EXCEPT !.fail = @ + 2, !.last_error = Some("fault: timeout")]

(* After the drop's sleep: RT.fail += 1, last_error = fault_drop_timeout;  *)
(* the HTTPException raised next is not counted by the except block.       *)
DropTimeoutCount(rt) ==
    [rt EXCEPT !.fail = @ + 1, !.last_error = Some("fault_drop_timeout")]

(* Variant that answers the plain text whatever the mode.                  *)
CorruptBody_Plain(corrupt) == "CORRUPTED"

(* The body of the corrupt answer: the JSON with simulated_ms = "NaN" for  *)
(* mode bad_fields, the text CORRUPTED otherwise.                          *)
CorruptBody(corrupt) ==
    IF corrupt.spec.mode = "bad_fields"
    THEN "{worker, msg: CORRUPTED, simulated_ms: NaN}"
    ELSE "CORRUPTED"

(* A corrupt fault fired: RT.fail += 1, last_error = fault_corrupt.        *)
CorruptCount(rt) ==
    [rt EXCEPT !.fail = @ + 1, !.last_error = Some("fault_corrupt")]

(* Variant in which the handler reads the registry again after its         *)
(* snapshot.                                                               *)
HandlerFaults_Live(q) == snapshot_active(RT.faults, now)

(* The faults the try block consults: the handler's active_faults.         *)
HandlerFaults(q) == q.active_faults

(* A handler that has answered: its locals are gone, its answer is kept.   *)
Answered(q, status, body) ==
    [q EXCEPT !.pc = "done", !.active_faults = <<>>, !.drop = None, !.cfg = None,
              !.simulated = 0, !.status = status, !.body = body]

(* The await the handler reaches once the delay sleep is behind it: the    *)
(* burn thread, the sleep of a timeout drop, or the simulated latency.     *)
AfterDelay(q, burn_ms, jitter) ==
    IF burn_ms > 0 THEN [q EXCEPT !.pc = "burn"]
    ELSE IF q.drop # None /\ q.drop[1].spec.mode = "timeout"
    THEN [q EXCEPT !.pc = "drop_sleep"]
    ELSE [q EXCEPT !.pc = "latency", !.simulated = q.cfg[1].base_lat_ms + jitter]

(* POST /handle from its entry to its first await: the critical section    *)
(* that counts the request and takes the snapshot, the admission check,    *)
(* and the start of the try block.                                         *)
HandleEnter(h) ==
    /\ hreqs[h].pc = "idle"
    /\ IF h = 1 THEN TRUE ELSE hreqs[h - 1].pc # "idle"
    /\ LET active_faults == snapshot_active(RT.faults, now)
           rt1 == [RT EXCEPT !.total = @ + 1, !.faults = active_faults]
       IN \E drop \in _pick_drop(active_faults),
             err_fault \in _pick_error(active_faults) :
          IF drop # None /\ drop[1].spec.mode = "503"
          THEN /\ RT' = [rt1 EXCEPT !.fail = @ + 1,
                                    !.last_error = Some("fault_drop_503")]
               /\ hreqs' = [hreqs EXCEPT ![h] =
                     Answered(@, drop[1].spec.status_code, "fault: drop 503")]
          ELSE IF err_fault # None
          THEN /\ RT' = [rt1 EXCEPT !.fail = @ + 1,
                                    !.last_error = Some("fault_error")]
               /\ hreqs' = [hreqs EXCEPT ![h] =
                     Answered(@, err_fault[1].spec.status_code,
                              err_fault[1].spec.message)]
          ELSE IF OverCapacity(rt1, rt1.cfg)
          THEN /\ RT' = [rt1 EXCEPT !.fail = @ + 1,
                                    !.last_error = Some("over_capacity")]
               /\ hreqs' = [hreqs EXCEPT ![h] = Answered(@, 503, "over capacity")]
          ELSE /\ RT' = [rt1 EXCEPT !.inflight = @ + 1]
               /\ \E extra_delay_ms \in _sum_delay_ms(active_faults),
                     burn_ms \in _sum_cpu_burn_ms(active_faults),
                     jitter \in 0..Max(0, rt1.cfg.jitter_ms) :
                    LET q == [hreqs[h] EXCEPT !.active_faults = active_faults,
                                              !.drop = drop, !.cfg = Some(rt1.cfg),
                                              !.admitted = TRUE]
                    IN hreqs' = [hreqs EXCEPT ![h] =
                          IF extra_delay_ms > 0 THEN [q EXCEPT !.pc = "delay"]
                          ELSE AfterDelay(q, burn_ms, jitter)]
    /\ UNCHANGED <<LBVars, now, nctl, ctl_resp>>

(* An await of the try block comes back: the handler runs on to its next   *)
(* await or to its return, the finally block included.                     *)
HandleResume(h) ==
    /\ hreqs[h].pc \in {"delay", "burn", "drop_sleep", "latency"}
    /\ LET q == hreqs[h] IN
       IF q.pc = "delay"
       THEN /\ \E burn_ms \in _sum_cpu_burn_ms(HandlerFaults(q)),
                  jitter \in 0..Max(0, q.cfg[1].jitter_ms) :
                 hreqs' = [hreqs EXCEPT ![h] = AfterDelay(q, burn_ms, jitter)]
            /\ UNCHANGED RT
       ELSE IF q.pc = "burn"
       THEN /\ \E jitter \in 0..Max(0, q.cfg[1].jitter_ms) :
                 hreqs' = [hreqs EXCEPT ![h] = AfterDelay(q, 0, jitter)]
            /\ UNCHANGED RT
       ELSE IF q.pc = "drop_sleep"
       THEN /\ RT' = ExitInflight(DropTimeoutCount(RT))
            /\ hreqs' = [hreqs EXCEPT ![h] = Answered(q, 504, "fault: timeout")]
       ELSE \E corrupt \in _pick_corrupt(HandlerFaults(q)) :
            IF corrupt # None
            THEN /\ RT' = ExitInflight(CorruptCount(RT))
                 /\ hreqs' = [hreqs EXCEPT ![h] =
                       Answered(q, 500, CorruptBody(corrupt[1]))]
            ELSE /\ RT' = ExitInflight([RT EXCEPT !.ok = @ + 1,
                                                  !.last_simulated_ms = Some(q.simulated),
                                                  !.last_completed_at = Some(now),
                                                  !.last_error = None])
                 /\ hreqs' = [hreqs EXCEPT ![h] =
                       Answered(q, 200, "Handled request (simulated).")]
    /\ UNCHANGED <<LBVars, now, nctl, ctl_resp>>

(* The handler's task is cancelled at an await: CancelledError is not an   *)
(* Exception, so only the finally block runs.                              *)
HandleCancel(h) ==
    /\ hreqs[h].pc \in {"delay", "burn", "drop_sleep", "latency"}
    /\ RT' = ExitInflight(RT)
    /\ hreqs' = [hreqs EXCEPT ![h] = Answered(@, 0, "cancelled")]
    /\ UNCHANGED <<LBVars, now, nctl, ctl_resp>>

(* PATCH /config                                                           *)
ConfigPatches ==
    { [capacity |-> Some(1), base_lat_ms |-> None],
      [capacity |-> Some(2), base_lat_ms |-> Some(20)] }

patch_config(patch) ==
    /\ nctl > 0
    /\ RT' = [RT EXCEPT
                !.cfg.capacity = IF patch.capacity # None THEN patch.capacity[1] ELSE @,
                !.cfg.base_lat_ms =
                    IF patch.base_lat_ms # None THEN patch.base_lat_ms[1] ELSE @]
    /\ ctl_resp' = Some([op |-> "patch_config", status |-> 200, cfg |-> RT'.cfg])
    /\ nctl' = nctl - 1
    /\ UNCHANGED <<LBVars, now, hreqs, Others>>

_snapshot_metrics(rt) ==
    [inflight |-> rt.inflight, total |-> rt.total, ok |-> rt.ok, fail |-> rt.fail,
     last_error |-> rt.last_error, last_simulated_ms |-> rt.last_simulated_ms,
     last_completed_at |-> rt.last_completed_at]

(* GET /metrics                                                            *)
metrics ==
    /\ nctl > 0
    /\ ctl_resp' = Some([op |-> "metrics", status |-> 200,
                         metrics |-> _snapshot_metrics(RT)])
    /\ nctl' = nctl - 1
    /\ UNCHANGED <<LBVars, now, RT, hreqs, Others>>

(* Variant of the reset that zeroes inflight with the other counters.      *)
reset_metrics_AlsoInflight ==
    /\ nctl > 0
    /\ RT' = [RT EXCEPT !.total = 0, !.ok = 0, !.fail = 0, !.inflight = 0,
                        !.last_error = None,
                        !.last_simulated_ms = None, !.last_completed_at = None]
    /\ ctl_resp' = Some([op |-> "reset_metrics", status |-> 200,
                         before |-> _snapshot_metrics(RT),
                         after |-> _snapshot_metrics(RT')])
    /\ nctl' = nctl - 1
    /\ UNCHANGED <<LBVars, now, hreqs, Others>>

(* POST /metrics/reset                                                     *)
reset_metrics ==
    /\ nctl > 0
    /\ RT' = [RT EXCEPT !.total = 0, !.ok = 0, !.fail = 0, !.last_error = None,
                        !.last_simulated_ms = None, !.last_completed_at = None]
    /\ ctl_resp' = Some([op |-> "reset_metrics", status |-> 200,
                         before |-> _snapshot_metrics(RT),
                         after |-> _snapshot_metrics(RT')])
    /\ nctl' = nctl - 1
    /\ UNCHANGED <<LBVars, now, hreqs, Others>>

(* GET /faults                                                             *)
list_faults ==
    /\ nctl > 0
    /\ RT' = [RT EXCEPT !.faults = purge_expired(@, now)]
    /\ ctl_resp' = Some([op |-> "list_faults", status |-> 200,
                         faults |-> list_views(RT.faults, now)])
    /\ nctl' = nctl - 1
    /\ UNCHANGED <<LBVars, now, hreqs, Others>>

(* The bodies POST /faults is sent: requests of the three kinds of the     *)
(* FaultCreate union, and of kinds it does not have.                       *)
FaultPayloads ==
    { DelayFaultCreate(10, 50, Some(1)),
      DropFaultCreate("503", 503, 100, None),
      DropFaultCreate("timeout", 503, 100, None),
      CorruptFaultCreate("invalid_json", 100, None),
      CorruptFaultCreate("bad_fields", 100, None),
      FaultSpec("error", "", 500, 0, 100, None),
      [FaultSpec("cpu_burn", "", 0, 0, 100, None) EXCEPT !.burn_ms = 10],
      FaultSpec("bogus", "", 0, 0, 100, None) }

(* POST /faults: 422 when the body matches no member of the union.         *)
add_fault(payload) ==
    /\ nctl > 0
    /\ IF payload.kind \in FaultCreateKinds
       THEN LET fid == FaultId(RT.uuids + 1) IN
            /\ RT' = [RT EXCEPT !.faults = add(@, payload, now, fid),
                                !.uuids = @ + 1]
            /\ ctl_resp' = Some([op |-> "add_fault", status |-> 200, id |-> fid])
       ELSE /\ ctl_resp' = Some([op |-> "add_fault", status |-> 422, id |-> ""])
            /\ UNCHANGED RT
    /\ nctl' = nctl - 1
    /\ UNCHANGED <<LBVars, now, hreqs, Others>>

FaultIdInputs == {FaultId(1), FaultId(2), "missing"}

(* DELETE /faults/{fault_id}                                               *)
delete_fault(fault_id) ==
    /\ nctl > 0
    /\ RT' = [RT EXCEPT !.faults = delete(@, fault_id)]
    /\ ctl_resp' = Some([op |-> "delete_fault",
                         status |-> IF Len(RT'.faults) # Len(RT.faults) THEN 200 ELSE 404,
                         id |-> fault_id])
    /\ nctl' = nctl - 1
    /\ UNCHANGED <<LBVars, now, hreqs, Others>>

(* DELETE /faults                                                          *)
clear_faults ==
    /\ nctl > 0
    /\ RT' = [RT EXCEPT !.faults = <<>>]
    /\ ctl_resp' = Some([op |-> "clear_faults", status |-> 200,
                         cleared |-> Len(RT.faults)])
    /\ nctl' = nctl - 1
    /\ UNCHANGED <<LBVars, now, hreqs, Others>>

NextWorker ==
    \/ WorkerTick
    \/ \E h \in DOMAIN hreqs : HandleEnter(h)
    \/ \E h \in DOMAIN hreqs : HandleResume(h)
    \/ \E h \in DOMAIN hreqs : HandleCancel(h)
    \/ \E patch \in ConfigPatches : patch_config(patch)
    \/ reset_metrics
    \/ list_faults
    \/ \E payload \in FaultPayloads : add_fault(payload)
    \/ \E fault_id \in FaultIdInputs : delete_fault(fault_id)
    \/ clear_faults

SpecWorker == InitWorker /\ [][NextWorker]_vars

----------------------------------------------------------------------------
(* The worker's counters: /handle requests beside the metrics routes and   *)
(* the config patch, with an empty fault registry.                         *)

NextMetrics ==
    \/ \E h \in DOMAIN hreqs : HandleEnter(h)
    \/ \E h \in DOMAIN hreqs : HandleResume(h)
    \/ \E h \in DOMAIN hreqs : HandleCancel(h)
    \/ \E patch \in ConfigPatches : patch_config(patch)
    \/ metrics
    \/ reset_metrics

SpecMetrics == InitWorker /\ [][NextMetrics]_vars

----------------------------------------------------------------------------
(* The fault registry behind its four routes, with no /handle request.     *)

MaxCtlF == 3

InitRegistry ==
    /\ workers = <<>>
    /\ weight_mode = "manual"
    /\ now = 0
    /\ RETRY_ATTEMPTS = 2
    /\ reqs = <<>>
    /\ nctl = MaxCtlF
    /\ ctl_resp = None
    /\ harness = NoHarness
    /\ history = None
    /\ RT = Runtime(WorkerConfig(1))
    /\ hreqs = <<>>
    /\ Idle

NextRegistry ==
    \/ WorkerTick
    \/ list_faults
    \/ \E payload \in FaultPayloads : add_fault(payload)
    \/ \E fault_id \in FaultIdInputs : delete_fault(fault_id)
    \/ clear_faults

SpecRegistry == InitRegistry /\ [][NextRegistry]_vars

----------------------------------------------------------------------------
(* The fault helpers of the handler on their own: a list of active faults  *)
(* is built fault by fault and the five helpers are applied to it once.    *)

MaxFaults == 3

(* Fault specs of the five kinds the helpers tell apart, with              *)
(* probabilities 0, 1/2 and 1.                                             *)
ComposeSpecs ==
    { DelayFaultCreate(10, 100, None),
      DelayFaultCreate(20, 50, None),
      DelayFaultCreate(40, 0, None),
      [FaultSpec("cpu_burn", "", 0, 0, 100, None) EXCEPT !.burn_ms = 5],
      [FaultSpec("cpu_burn", "", 0, 0, 50, None) EXCEPT !.burn_ms = 10],
      DropFaultCreate("503", 503, 100, None),
      DropFaultCreate("timeout", 503, 50, None),
      CorruptFaultCreate("invalid_json", 50, None),
      CorruptFaultCreate("bad_fields", 100, None),
      FaultSpec("error", "", 500, 0, 50, None),
      FaultSpec("error", "", 418, 0, 100, None) }

NoCompose == [active_faults |-> <<>>, applied |-> FALSE, extra_delay_ms |-> 0,
              burn_ms |-> 0, drop |-> None, corrupt |-> None, err_fault |-> None]

InitCompose ==
    /\ workers = <<>>
    /\ weight_mode = "manual"
    /\ now = 0
    /\ RETRY_ATTEMPTS = 2
    /\ reqs = <<>>
    /\ nctl = 0
    /\ ctl_resp = None
    /\ harness = NoCompose
    /\ history = None
    /\ RT = NoWorker
    /\ hreqs = <<>>
    /\ Idle

(* One more fault in the list, after those already there.                  *)
ComposeAdd(spec) ==
    /\ ~harness.applied
    /\ Len(harness.active_faults) < MaxFaults
    /\ harness' = [harness EXCEPT !.active_faults =
                      Append(@, Fault(FaultId(Len(@) + 1), spec.kind, now, None, spec))]
    /\ UNCHANGED <<workers, weight_mode, now, RETRY_ATTEMPTS, reqs, nctl, ctl_resp,
                   history, RT, hreqs, Others>>

(* The calls handle() makes on its snapshot.                               *)
ComposeApply ==
    /\ ~harness.applied
    /\ \E extra_delay_ms \in _sum_delay_ms(harness.active_faults),
          burn_ms \in _sum_cpu_burn_ms(harness.active_faults),
          drop \in _pick_drop(harness.active_faults),
          corrupt \in _pick_corrupt(harness.active_faults),
          err_fault \in _pick_error(harness.active_faults) :
         harness' = [harness EXCEPT !.applied = TRUE,
                                    !.extra_delay_ms = extra_delay_ms,
                                    !.burn_ms = burn_ms,
                                    !.drop = drop,
                                    !.corrupt = corrupt,
                                    !.err_fault = err_fault]
    /\ UNCHANGED <<workers, weight_mode, now, RETRY_ATTEMPTS, reqs, nctl, ctl_resp,
                   history, RT, hreqs, Others>>

NextCompose ==
    \/ \E spec \in ComposeSpecs : ComposeAdd(spec)
    \/ ComposeApply

SpecCompose == InitCompose /\ [][NextCompose]_vars

----------------------------------------------------------------------------
(* Quantities the selector claims speak of.                                *)

(* Eligibility as the claims word it: online, effective_weight > 0 and     *)
(* now >= disabled_until.                                                  *)
IsEligible(w, t) == w.online /\ w.effective_weight > 0 /\ t >= w.disabled_until
EligibleSet == {i \in 1..Len(workers) : IsEligible(workers[i], now)}
TotalWeight == SumOver([i \in 1..Len(workers) |-> workers[i].effective_weight],
                       EligibleSet)
TotalAssigned == SumOver([i \in 1..Len(workers) |-> workers[i].assigned],
                         1..Len(workers))
WeightsAre(a, b, c) ==
    /\ Len(workers) = 3
    /\ EligibleSet = {1, 2, 3}
    /\ workers[1].effective_weight = a
    /\ workers[2].effective_weight = b
    /\ workers[3].effective_weight = c

(* C3: with a fixed eligible set and fixed weights, from current_weight 0, *)
(* after N choose() calls every call returned a worker, the assigned       *)
(* counts sum to N, and each share assigned_i / N is within 1/N of         *)
(* w_i / SUM w (so the error shrinks as N grows); for weights 5,3,2 and    *)
(* N = 5000 each share is within 0.03 of 0.5, 0.3, 0.2 and each count      *)
(* within 3% of 2500, 1500, 1000.                                          *)
C3_Distribution ==
    LET n == harness.ncalls IN
    /\ n > 0 => harness.ret \in EligibleSet
    /\ TotalAssigned = n
    /\ \A i \in EligibleSet :
          Abs(workers[i].assigned * TotalWeight - n * workers[i].effective_weight)
              < TotalWeight
    /\ (WeightsAre(5, 3, 2) /\ n = TEST_CALLS) =>
          /\ \A i \in 1..3 :
                100 * Abs(workers[i].assigned * 10 - n * workers[i].effective_weight)
                    < 3 * n * 10
          /\ 100 * Abs(workers[1].assigned - 2500) <= 3 * 2500
          /\ 100 * Abs(workers[2].assigned - 1500) <= 3 * 1500
          /\ 100 * Abs(workers[3].assigned - 1000) <= 3 * 1000

C3_Witness ==
    /\ WeightsAre(5, 3, 2)
    /\ harness.ncalls = TEST_CALLS
    /\ workers[1].assigned = 2500
    /\ workers[2].assigned = 1500
    /\ workers[3].assigned = 1000

(* C4 as stated: for three always-eligible workers A, B, C in registry    *)
(* order with effective weights 5, 1, 1 and current_weight initially 0,    *)
(* the first seven choose() calls return A A B A B A C.                    *)
C4_Original ==
    WeightsAre(5, 1, 1) =>
        /\ harness.ncalls \in {1, 2, 4, 6} => harness.ret = 1
        /\ harness.ncalls \in {3, 5} => harness.ret = 2
        /\ harness.ncalls = 7 => harness.ret = 3

(* C4, amended: with effective weights 5, 1, 1 the first seven choose()    *)
(* calls return the interleaved sequence A A B A C A A: A five times, B    *)
(* and C once each, and not A A A A A B C.                                 *)
C4_Interleaved ==
    WeightsAre(5, 1, 1) =>
        /\ harness.ncalls \in {1, 2, 4, 6, 7} => harness.ret = 1
        /\ harness.ncalls = 3 => harness.ret = 2
        /\ harness.ncalls = 5 => harness.ret = 3

C4_Witness ==
    /\ WeightsAre(5, 1, 1)
    /\ harness.ncalls = 7
    /\ harness.ret = 1
    /\ workers[1].assigned = 5
    /\ workers[2].assigned = 1
    /\ workers[3].assigned = 1

(* C5: no starvation: with a fixed eligible set and fixed weights, no run  *)
(* of SUM w consecutive choose() calls leaves an eligible worker out, that *)
(* is, no eligible worker has gone SUM w calls without being returned.     *)
C5_NoStarvation ==
    \A i \in EligibleSet : harness.since[i] < TotalWeight

C5_Witness ==
    /\ WeightsAre(5, 1, 1)
    /\ harness.ncalls > 7
    /\ harness.since[3] = 6

----------------------------------------------------------------------------
(* Steps of a /request handler, read off two successive states.            *)

W == 1..Len(workers)

(* Handler r called choose() in this step.                                 *)
Chose(r) == reqs'[r].attempt = reqs[r].attempt + 1

(* Handler r's forward came back in this step; Fwd(r) is what it was.      *)
Returned(r) == Len(reqs'[r].log) = Len(reqs[r].log) + 1
Fwd(r) == reqs'[r].log[Len(reqs'[r].log)]

(* The error string of a failed forward, and which forwards the dispatch   *)
(* retries (an exception, a timeout, a status of 500 or more).             *)
ErrOf(out) == IF out.raised # None THEN "forward: " \o out.raised[1]
              ELSE "http " \o ToString(out.status)
Retried(out) == out.raised # None \/ out.status >= 500
Is4xx(out) == out.raised = None /\ out.status >= 300 /\ out.status < 500

(* C1: for every LB worker record, assigned >= ok + fail in every          *)
(* reachable state, under any interleaving of /request dispatches, health  *)
(* probes and POST /experiment/reset.                                      *)
C1_AssignedCoversOutcomes ==
    \A i \in W : workers[i].assigned >= workers[i].ok + workers[i].fail

(* C2: choose() returns None iff no worker is eligible at the moment of    *)
(* selection; otherwise it returns a worker eligible at that moment and    *)
(* adds 1 to that worker's assigned and to no other's.  No step adds to    *)
(* the assigned of a worker that is offline or inside its disable window.  *)
C2_ChooseEligible ==
    [][ /\ \A r \in DOMAIN reqs : Chose(r) =>
              /\ reqs'[r].w = 0 <=> EligibleSet = {}
              /\ reqs'[r].w # 0 =>
                    /\ reqs'[r].w \in EligibleSet
                    /\ \A i \in W : workers'[i].assigned =
                          workers[i].assigned + (IF i = reqs'[r].w THEN 1 ELSE 0)
        /\ \A i \in W \ EligibleSet : workers'[i].assigned <= workers[i].assigned
      ]_vars

C2_Witness ==
    /\ Len(workers) = 2
    /\ ~workers[1].online
    /\ now < workers[2].disabled_until
    /\ workers[2].assigned = 1
    /\ \E r \in DOMAIN reqs : reqs[r].status = 503 /\ reqs[r].attempt = 2

(* C7: when a /request has made max(1, RETRY_ATTEMPTS) forwards and each   *)
(* of them failed (raised, timed out or returned a status >= 500), it      *)
(* fails with 502 whose detail carries the error string of the last failed *)
(* forward; and each failed forward adds exactly 1 to the fail counter of  *)
(* the worker it targeted and nothing to any other's.                      *)
C7_AllAttemptsFail ==
    /\ [](\A r \in DOMAIN reqs :
            ( /\ reqs[r].pc = "done"
              /\ Len(reqs[r].log) = Max(1, RETRY_ATTEMPTS)
              /\ \A k \in 1..Len(reqs[r].log) : Retried(reqs[r].log[k].out) )
            => /\ reqs[r].status = 502
               /\ reqs[r].detail =
                     Some("All attempts failed: "
                          \o ErrOf(reqs[r].log[Len(reqs[r].log)].out)))
    /\ [][\A r \in DOMAIN reqs :
            (Returned(r) /\ ~Is2xx(Fwd(r).out.status)) =>
                \A i \in W : workers'[i].fail =
                    workers[i].fail + (IF i = Fwd(r).w THEN 1 ELSE 0)]_vars

C7_Witness ==
    /\ Len(workers) = 1
    /\ RETRY_ATTEMPTS = 1
    /\ reqs[1].pc = "done"
    /\ reqs[1].status = 502
    /\ reqs[1].detail = Some("All attempts failed: forward: timeout")
    /\ workers[1].fail = 1
    /\ workers[1].assigned = 1

(* C8: if choose() returns None at an attempt of a /request, the request   *)
(* fails with 503 "No eligible workers" at once: no forward is issued for  *)
(* that attempt, that attempt changes no field of any worker, and a        *)
(* finished request makes no further attempt.                              *)
C8_NoneIs503 ==
    [][\A r \in DOMAIN reqs :
         /\ (Chose(r) /\ EligibleSet = {}) =>
               /\ reqs'[r].pc = "done"
               /\ reqs'[r].status = 503
               /\ reqs'[r].detail = Some("No eligible workers")
               /\ reqs'[r].log = reqs[r].log
               /\ workers' = workers
         /\ reqs[r].pc = "done" => reqs'[r] = reqs[r]
      ]_vars

C8_Witness ==
    /\ Len(workers) = 1
    /\ RETRY_ATTEMPTS = 2
    /\ reqs[1].pc = "done"
    /\ reqs[1].status = 503
    /\ reqs[1].attempt = 2
    /\ Len(reqs[1].log) = 1
    /\ workers[1].assigned = 1

(* C9: a forward that raises or returns a status >= 500 adds 1 to the      *)
(* chosen worker's fail, sets its last_error, sets its disabled_until to   *)
(* now + DISABLE_ON_FAIL_SEC, and the dispatch goes on to the next         *)
(* iteration of its loop (the next attempt, or the 502 once                *)
(* max(1, RETRY_ATTEMPTS) attempts are made); when a first worker answered *)
(* 500 and a second one 200, the response has chosen_worker = the second   *)
(* worker and attempt = 2, and that forward added 1 to the second's ok.    *)
C9_FailDisablesAndRetries ==
    [][\A r \in DOMAIN reqs : Returned(r) =>
         LET e == Fwd(r)
             i == e.w
         IN /\ Retried(e.out) =>
                 /\ workers'[i].fail = workers[i].fail + 1
                 /\ workers'[i].last_error = Some(ErrOf(e.out))
                 /\ workers'[i].disabled_until = now + DISABLE_ON_FAIL_SEC
                 /\ ~IsEligible(workers'[i], now)
                 /\ reqs'[r].attempt = reqs[r].attempt
                 /\ IF reqs[r].attempt < Max(1, RETRY_ATTEMPTS)
                    THEN reqs'[r].pc = "loop"
                    ELSE reqs'[r].pc = "done" /\ reqs'[r].status = 502
            /\ ( /\ Len(reqs'[r].log) = 2
                 /\ reqs'[r].log[1].out.status = 500
                 /\ reqs'[r].log[1].w # i
                 /\ e.out.status = 200 ) =>
                 /\ reqs'[r].resp # None
                 /\ reqs'[r].resp[1].chosen_worker = workers[i].id
                 /\ reqs'[r].resp[1].attempt = 2
                 /\ workers'[i].ok = workers[i].ok + 1
                 /\ workers'[i].fail = workers[i].fail
      ]_vars

C9_Witness ==
    /\ Len(workers) = 2
    /\ now = 0
    /\ reqs[1].pc = "done"
    /\ Len(reqs[1].log) = 2
    /\ reqs[1].log[1].w = 1 /\ reqs[1].log[1].out.status = 500
    /\ reqs[1].log[2].w = 2 /\ reqs[1].log[2].out.status = 200
    /\ reqs[1].resp # None
    /\ reqs[1].resp[1].chosen_worker = "w2"
    /\ reqs[1].resp[1].attempt = 2
    /\ workers[1].fail = 1
    /\ workers[1].disabled_until = DISABLE_ON_FAIL_SEC
    /\ workers[2].ok = 1

(* C10: when a forward returns a non-2xx status below 500, the dispatch    *)
(* adds 1 to that worker's fail and sets its last_error, returns the       *)
(* upstream status and body at that attempt number, makes no further       *)
(* attempt, and leaves the worker's disabled_until (and so its             *)
(* eligibility) unchanged.                                                 *)
C10_4xxSurfaced ==
    [][\A r \in DOMAIN reqs :
         /\ (Returned(r) /\ Is4xx(Fwd(r).out)) =>
               LET e == Fwd(r)
                   i == e.w
               IN /\ workers'[i].fail = workers[i].fail + 1
                  /\ workers'[i].last_error = Some(ErrOf(e.out))
                  /\ workers'[i].disabled_until = workers[i].disabled_until
                  /\ IsEligible(workers'[i], now) = IsEligible(workers[i], now)
                  /\ reqs'[r].pc = "done"
                  /\ reqs'[r].resp # None
                  /\ reqs'[r].resp[1].worker_status = e.out.status
                  /\ reqs'[r].resp[1].worker_body = <<"body", e.out.status>>
                  /\ reqs'[r].resp[1].attempt = reqs[r].attempt
                  /\ reqs'[r].resp[1].chosen_worker = workers[i].id
         /\ (reqs[r].pc = "done" /\ reqs[r].resp # None) => reqs'[r] = reqs[r]
      ]_vars

C10_Witness ==
    \E r \in DOMAIN reqs :
        /\ reqs[r].pc = "done"
        /\ reqs[r].attempt = 2
        /\ reqs[r].resp # None
        /\ reqs[r].resp[1].worker_status = 404
        /\ reqs[r].resp[1].attempt = 2
        /\ workers[reqs[r].w].fail = 1
        /\ workers[reqs[r].w].last_error = Some("http 404")
        /\ workers[reqs[r].w].disabled_until = 0
        /\ IsEligible(workers[reqs[r].w], now)

----------------------------------------------------------------------------
(* C6: in every reachable state each worker's effective_weight is >= 1 and *)
(* equals max(1, manual_weight if set else reported_weight) when the mode  *)
(* is manual, and max(1, auto_weight if set else reported_weight) when it  *)
(* is auto, after any sequence of health probes, mode switches, manual     *)
(* weight PATCH/DELETE, worker config patches and auto-weight ticks.       *)
C6_EffectiveWeight ==
    \A i \in W :
        LET w == workers[i]
            override == IF weight_mode = "manual" THEN w.manual_weight
                        ELSE w.auto_weight
            base == IF override = <<>> THEN w.reported_weight ELSE override[1]
        IN /\ weight_mode \in {"manual", "auto"}
           /\ w.effective_weight >= 1
           /\ w.effective_weight = (IF base < 1 THEN 1 ELSE base)

C6_Witness ==
    /\ Len(workers) = 2
    /\ weight_mode = "auto"
    /\ workers[1].auto_weight = <<10>>
    /\ workers[1].effective_weight = 10
    /\ workers[2].reported_weight = 1
    /\ workers[2].auto_weight = <<2>>
    /\ workers[2].effective_weight = 2

----------------------------------------------------------------------------
(* C11: when a forward returns 2xx, the dispatch adds 1 to that worker's   *)
(* ok, leaves its fail unchanged, clears its last_error, replaces          *)
(* avg_latency_ms by the sample when the previous value is <= 0 and by     *)
(* alpha * sample + (1 - alpha) * previous otherwise, and returns at once  *)
(* with the attempt number of that forward; no later attempt is made.      *)
C11_SuccessRecorded ==
    [][\A r \in DOMAIN reqs :
         /\ ( /\ Returned(r)
              /\ Fwd(r).out.raised = None
              /\ Fwd(r).out.status >= 200 /\ Fwd(r).out.status < 300 ) =>
               LET e == Fwd(r)
                   i == e.w
                   prev == workers[i].avg_latency_ms
                   new == workers'[i].avg_latency_ms
               IN /\ workers'[i].ok = workers[i].ok + 1
                  /\ workers'[i].fail = workers[i].fail
                  /\ workers'[i].last_error = None
                  /\ new.d > 0
                  /\ IF prev.n <= 0
                     THEN new.n = e.out.ms * new.d
                     ELSE new.n * ALPHA_DEN * prev.d =
                            new.d * (ALPHA_NUM * e.out.ms * prev.d
                                     + (ALPHA_DEN - ALPHA_NUM) * prev.n)
                  /\ reqs'[r].pc = "done"
                  /\ reqs'[r].status = 200
                  /\ reqs'[r].resp # None
                  /\ reqs'[r].resp[1].attempt = reqs[r].attempt
                  /\ reqs'[r].resp[1].worker_status = e.out.status
         /\ (reqs[r].pc = "done" /\ reqs[r].resp # None) =>
               reqs'[r].attempt = reqs[r].attempt /\ reqs'[r].log = reqs[r].log
      ]_vars

C11_Witness ==
    /\ Len(workers) = 1
    /\ workers[1].ok = 2
    /\ workers[1].fail = 0
    /\ workers[1].last_error = None
    /\ workers[1].avg_latency_ms = [n |-> 28, d |-> 1]
    /\ reqs[1].resp # None /\ reqs[1].resp[1].attempt = 1
    /\ reqs[2].resp # None /\ reqs[2].resp[1].lb_forward_ms = 100

----------------------------------------------------------------------------
(* C12: bounded retry: every /request terminates, having made at most      *)
(* max(1, RETRY_ATTEMPTS) choose() calls and at most as many forwards,     *)
(* provided each forward returns or times out; with RETRY_ATTEMPTS <= 0    *)
(* a request that finds a worker makes exactly one attempt.                *)
C12_BoundedRetry ==
    /\ [](\A r \in DOMAIN reqs :
            LET cap == IF RETRY_ATTEMPTS >= 1 THEN RETRY_ATTEMPTS ELSE 1 IN
            /\ reqs[r].attempt <= cap
            /\ Len(reqs[r].log) <= cap
            /\ Len(reqs[r].log) <= reqs[r].attempt
            /\ (RETRY_ATTEMPTS <= 0 /\ reqs[r].pc = "done") => reqs[r].attempt = 1)
    /\ \A r \in 1..MaxReqS : <>(reqs[r].pc = "done")

C12_Witness ==
    /\ RETRY_ATTEMPTS = -1
    /\ reqs[1].pc = "done"
    /\ reqs[1].attempt = 1
    /\ Len(reqs[1].log) = 1
    /\ reqs[1].status = 502

----------------------------------------------------------------------------
(* A step in which POST /experiment/reset answered.                        *)
ResetAnswered ==
    ctl_resp' # ctl_resp /\ ctl_resp' # None /\ ctl_resp'[1].op = "reset"

(* C13: POST /experiment/reset sets assigned, ok, fail, avg_latency_ms,    *)
(* current_weight and disabled_until of every LB worker to 0 (last_error   *)
(* to none for online workers) and empties the history buffer, whatever    *)
(* the client-generator calls and the workers' metrics resets did; the     *)
(* response carries one result per target (clientgen stop, clientgen       *)
(* reset, each worker, lb runtime_stats, lb history, the last with         *)
(* ok = true) and its top-level ok is true iff every listed result is ok.  *)
C13_ResetClears ==
    [][ResetAnswered =>
         LET resp == ctl_resp'[1]
             res == resp.results
             n == Len(workers)
         IN /\ \A i \in 1..n :
                  /\ workers'[i].assigned = 0
                  /\ workers'[i].ok = 0
                  /\ workers'[i].fail = 0
                  /\ workers'[i].avg_latency_ms.n = 0
                  /\ workers'[i].current_weight = 0
                  /\ workers'[i].disabled_until = 0
                  /\ workers'[i].online => workers'[i].last_error = None
            /\ history' = Some(<<>>)
            /\ Len(res) = n + 4
            /\ res[1].target = "clientgen" /\ res[1].id = "stop"
            /\ res[2].target = "clientgen" /\ res[2].id = "reset"
            /\ \A i \in 1..n : res[2 + i].target = "worker" /\ res[2 + i].id = workers[i].id
            /\ res[n + 3].target = "lb" /\ res[n + 3].id = "runtime_stats"
            /\ res[n + 4].target = "lb" /\ res[n + 4].id = "history"
            /\ res[n + 4].ok
            /\ resp.ok <=> \A k \in 1..Len(res) : res[k].ok
      ]_vars

----------------------------------------------------------------------------
(* The workers a path id names: by registry id or by the host of the URL.  *)
Named(id) == {i \in W : workers[i].id = id \/ workers[i].url.host = id}

WeightsKept(S) ==
    \A i \in S : /\ workers'[i].manual_weight = workers[i].manual_weight
                  /\ workers'[i].effective_weight = workers[i].effective_weight

(* C14: PATCH /workers/{id}/manual-weight answers 404 when the id matches  *)
(* no worker (neither registry id nor URL host) and 409 when the mode is   *)
(* not manual, and then no worker's manual_weight or effective_weight      *)
(* changes; in manual mode with a known id it answers 200 and sets that    *)
(* worker's manual_weight and effective_weight to the weight.  So no step  *)
(* sets a manual_weight unless the mode is manual.                         *)
C14_ManualWeightGuarded ==
    /\ [][\A id \in WorkerIdInputs, x \in ManualWeightInputs :
            set_manual_weight(id, x) =>
               IF Named(id) = {}
               THEN ctl_resp'[1].status = 404 /\ WeightsKept(W)
               ELSE IF weight_mode # "manual"
               THEN ctl_resp'[1].status = 409 /\ WeightsKept(W)
               ELSE /\ ctl_resp'[1].status = 200
                    /\ \E i \in Named(id) :
                          /\ workers'[i].manual_weight = <<x>>
                          /\ workers'[i].effective_weight = x
                          /\ WeightsKept(W \ {i})]_vars
    /\ [][\A i \in W :
            ( /\ workers'[i].manual_weight # workers[i].manual_weight
              /\ workers'[i].manual_weight # <<>> )
            => weight_mode = "manual" /\ weight_mode' = "manual"]_vars

C14_Witness ==
    /\ Len(workers) = 2
    /\ weight_mode = "manual"
    /\ workers[2].id = "worker-2"
    /\ workers[2].reported_weight = 2
    /\ workers[2].manual_weight = <<3>>
    /\ workers[2].effective_weight = 3
    /\ workers[1].manual_weight = <<>>
    /\ ctl_resp = <<[op |-> "set-manual", status |-> 200]>>

----------------------------------------------------------------------------
(* Steps of a worker's /handle handlers, read off two successive states.   *)

H == DOMAIN hreqs
InProgress(q) == q.admitted /\ q.pc # "done"

(* Handler h ran from its entry to its first await or to its answer.       *)
Entered(h) == hreqs[h].pc = "idle" /\ hreqs'[h].pc # "idle"

(* Handler h was answered by a fault before the admission check.           *)
AnsweredByFault(h) ==
    hreqs'[h].pc = "done" /\ hreqs'[h].body \in {"fault: drop 503", "fault: error"}

(* C15: within one worker, ok + fail <= total in every reachable state,    *)
(* under any interleaving of /handle requests with POST /metrics/reset,    *)
(* PATCH /config and fault add/delete/clear.                               *)
C15_OutcomesWithinTotal ==
    RT.ok + RT.fail <= RT.total

(* C16: a /handle request that reaches the admission check while           *)
(* inflight >= capacity is answered 503, has added 1 to total and 1 to     *)
(* fail, sets last_error = over_capacity and leaves inflight and ok        *)
(* unchanged; otherwise admission adds exactly 1 to inflight, and nothing  *)
(* else ever adds to it.                                                   *)
C16_AdmissionCheck ==
    [][ /\ \A h \in H : (Entered(h) /\ ~AnsweredByFault(h)) =>
              /\ RT'.total = RT.total + 1
              /\ IF RT.inflight >= RT.cfg.capacity
                 THEN /\ hreqs'[h].pc = "done"
                      /\ hreqs'[h].status = 503
                      /\ hreqs'[h].body = "over capacity"
                      /\ ~hreqs'[h].admitted
                      /\ RT'.fail = RT.fail + 1
                      /\ RT'.last_error = <<"over_capacity">>
                      /\ RT'.inflight = RT.inflight
                      /\ RT'.ok = RT.ok
                 ELSE /\ hreqs'[h].admitted
                      /\ hreqs'[h].pc # "done"
                      /\ RT'.inflight = RT.inflight + 1
                      /\ RT'.fail = RT.fail
                      /\ RT'.ok = RT.ok
        /\ RT'.inflight > RT.inflight =>
              \E h \in H : Entered(h) /\ hreqs'[h].admitted
      ]_vars

C16_Witness ==
    /\ RT.cfg.capacity = 1
    /\ RT.inflight = 1
    /\ RT.total = 2
    /\ RT.fail = 1
    /\ RT.ok = 0
    /\ RT.last_error = <<"over_capacity">>
    /\ InProgress(hreqs[1])
    /\ hreqs[2].pc = "done" /\ hreqs[2].status = 503 /\ ~hreqs[2].admitted

(* C17: in every reachable state inflight is <= the currently configured   *)
(* capacity, under any interleaving of /handle requests and live           *)
(* PATCH /config changes of capacity.                                      *)
C17_InflightWithinCapacity ==
    RT.inflight <= RT.cfg.capacity

(* C18: every admitted /handle request takes 1 off inflight exactly once   *)
(* when it exits, whichever way it exits, and a request rejected before    *)
(* admission never does: inflight equals the number of admitted requests   *)
(* still in progress, is never negative, and is 0 when none is in          *)
(* progress.                                                               *)
C18_InflightCountsAdmitted ==
    /\ RT.inflight = Cardinality({h \in H : InProgress(hreqs[h])})
    /\ RT.inflight >= 0
    /\ (\A h \in H : ~InProgress(hreqs[h])) => RT.inflight = 0

C18_Witness ==
    /\ RT.inflight = 0
    /\ RT.total = 2
    /\ hreqs[1].pc = "done" /\ hreqs[1].admitted /\ hreqs[1].body = "cancelled"
    /\ hreqs[2].pc = "done" /\ hreqs[2].admitted /\ hreqs[2].status = 504

----------------------------------------------------------------------------
(* Faults and time, as the fault claims speak of them.                     *)

SeqSet(fs) == {fs[i] : i \in DOMAIN fs}

(* The fault was added with a duration and the time t is past it.          *)
ExpiredAt(f, t) ==
    f.spec.duration_sec # <<>> /\ t > f.created_at + f.spec.duration_sec[1]

(* The fault was added with a duration that the time t has reached.        *)
ExpiringAt(f, t) ==
    f.spec.duration_sec # <<>> /\ t >= f.created_at + f.spec.duration_sec[1]

Lasting(f) == f.spec.duration_sec = <<>>

(* C19: a fault added with duration_sec = D is in no list result and in no *)
(* handler's active-fault snapshot taken at a time > created_at + D, and a *)
(* fault added without duration_sec is in every list result and stays in   *)
(* the registry until it is deleted or the registry is cleared.            *)
C19_ExpiredInvisible ==
    [][ /\ list_faults =>
              /\ \A f \in SeqSet(ctl_resp'[1].faults) : ~ExpiredAt(f, now)
              /\ \A f \in SeqSet(RT.faults) :
                    Lasting(f) => f \in SeqSet(ctl_resp'[1].faults)
        /\ \A h \in H : (Entered(h) /\ InProgress(hreqs'[h])) =>
              \A f \in SeqSet(hreqs'[h].active_faults) : ~ExpiredAt(f, now)
        /\ \A f \in SeqSet(RT.faults) :
              (Lasting(f) /\ f \notin SeqSet(RT'.faults)) =>
                  (clear_faults \/ delete_fault(f.id))
      ]_vars

(* A delay fault of duration 1 added at time 0; GET /faults at time 2      *)
(* returns no fault.                                                       *)
C19_Witness ==
    /\ now >= 2
    /\ RT.uuids = 1
    /\ ctl_resp # <<>>
    /\ ctl_resp[1].op = "list_faults"
    /\ ctl_resp[1].faults = <<>>
    /\ RT.faults = <<>>

CanFire(f) == f.spec.probability > 0
MustFire(f) == f.spec.probability >= 100
TimeoutDrop(q) == q.drop # <<>> /\ q.drop[1].spec.mode = "timeout"

(* C20: the faults that affect a /handle request are those unexpired in    *)
(* the registry at its entry, the step that adds 1 to total: the handler's *)
(* snapshot is taken there, is not changed while the request is in         *)
(* progress, and the request's delay, drop and corrupt outcomes follow     *)
(* from the snapshot alone, whatever is added to, deleted from, cleared    *)
(* from or expiring in the registry in between.                            *)
C20_ReadYourSnapshot ==
    [][ \A h \in H :
          /\ (Entered(h) /\ InProgress(hreqs'[h])) =>
                LET snap == SeqSet(hreqs'[h].active_faults)
                    q == hreqs'[h]
                IN /\ RT'.total = RT.total + 1
                   /\ {f \in SeqSet(RT.faults) : ~ExpiringAt(f, now)} \subseteq snap
                   /\ snap \subseteq {f \in SeqSet(RT.faults) : ~ExpiredAt(f, now)}
                   /\ q.drop # <<>> =>
                         q.drop[1] \in snap /\ q.drop[1].kind = "drop" /\ CanFire(q.drop[1])
                   /\ q.pc = "delay" =>
                         \E f \in snap : f.kind = "delay" /\ CanFire(f) /\ f.spec.delay_ms > 0
                   /\ (\E f \in snap : f.kind = "delay" /\ MustFire(f) /\ f.spec.delay_ms > 0)
                         => q.pc = "delay"
                   /\ q.pc = "drop_sleep" => TimeoutDrop(q)
          /\ (Entered(h) /\ hreqs'[h].body = "fault: drop 503") =>
                /\ RT'.total = RT.total + 1
                /\ \E f \in SeqSet(RT.faults) :
                      f.kind = "drop" /\ f.spec.mode = "503" /\ CanFire(f)
                                     /\ ~ExpiredAt(f, now)
          /\ (InProgress(hreqs[h]) /\ InProgress(hreqs'[h])) =>
                /\ hreqs'[h].active_faults = hreqs[h].active_faults
                /\ hreqs'[h].drop = hreqs[h].drop
                /\ hreqs'[h].cfg = hreqs[h].cfg
                /\ hreqs'[h].pc = "drop_sleep" => TimeoutDrop(hreqs[h])
                /\ (hreqs'[h].pc # hreqs[h].pc /\ TimeoutDrop(hreqs[h]))
                      => hreqs'[h].pc = "drop_sleep"
          /\ (InProgress(hreqs[h]) /\ hreqs'[h].pc = "done"
                                   /\ hreqs'[h].body # "cancelled") =>
                LET snap == SeqSet(hreqs[h].active_faults)
                    q == hreqs'[h]
                IN /\ q.status = 504 <=> TimeoutDrop(hreqs[h])
                   /\ q.status = 500 =>
                         \E f \in snap : f.kind = "corrupt" /\ CanFire(f)
                   /\ q.status = 200 =>
                         ~\E f \in snap : f.kind = "corrupt" /\ MustFire(f)
                   /\ q.status \in {200, 500, 504}
      ]_vars

(* A request took its snapshot of an empty registry, a corrupt fault that  *)
(* always fires was added, and the request was answered 200.               *)
C20_Witness ==
    /\ hreqs[1].pc = "done" /\ hreqs[1].admitted /\ hreqs[1].status = 200
    /\ RT.total = 1
    /\ RT.ok = 1
    /\ Len(RT.faults) = 1
    /\ RT.faults[1].kind = "corrupt" /\ MustFire(RT.faults[1])
    /\ ctl_resp # <<>> /\ ctl_resp[1].op = "add_fault"

----------------------------------------------------------------------------
(* The drop fault that fires for certain for a request entering now: the   *)
(* i-th fault of the registry is an unexpired drop fault that always       *)
(* fires, and no unexpired drop fault before it can fire.                  *)
SurelyPicked(i) ==
    LET f == RT.faults[i] IN
    /\ f.kind = "drop" /\ MustFire(f) /\ ~ExpiringAt(f, now)
    /\ \A j \in 1..(i - 1) :
          ~(RT.faults[j].kind = "drop" /\ CanFire(RT.faults[j])
                                      /\ ~ExpiredAt(RT.faults[j], now))

(* C21, as stated: whenever a drop fault fires for a /handle request, the  *)
(* request's outcome is the drop's (the fault's status_code for mode 503,  *)
(* 504 for mode timeout) whatever inflight and capacity are, and the       *)
(* request is not rejected as over_capacity.                               *)
C21_DropPreempts ==
    [][\A h \in H : Entered(h) =>
         \A i \in DOMAIN RT.faults : SurelyPicked(i) =>
            LET f == RT.faults[i]
                q == hreqs'[h]
            IN IF f.spec.mode = "503"
               THEN /\ q.pc = "done"
                    /\ q.status = f.spec.status_code
                    /\ q.body = "fault: drop 503"
               ELSE /\ q.body # "over capacity"
                    /\ q.pc = "done" => q.status = 504
      ]_vars

(* C21, amended: a firing drop fault of mode 503 answers the request with  *)
(* the fault's status_code before the admission check, whatever inflight   *)
(* and capacity are, counting it in fail and not in inflight; a firing     *)
(* drop fault of mode timeout is chosen before the admission check but     *)
(* does not preempt it: with inflight >= capacity the request is rejected  *)
(* 503 over_capacity, otherwise it is admitted carrying that drop.         *)
C21_Drop503Preempts ==
    [][\A h \in H : Entered(h) =>
         \A i \in DOMAIN RT.faults : SurelyPicked(i) =>
            LET f == RT.faults[i]
                q == hreqs'[h]
            IN /\ RT'.total = RT.total + 1
               /\ IF f.spec.mode = "503"
                  THEN /\ q.pc = "done"
                       /\ q.status = f.spec.status_code
                       /\ q.body = "fault: drop 503"
                       /\ ~q.admitted
                       /\ RT'.fail = RT.fail + 1
                       /\ RT'.last_error = <<"fault_drop_503">>
                       /\ RT'.inflight = RT.inflight
                  ELSE IF RT.inflight >= RT.cfg.capacity
                  THEN /\ q.pc = "done"
                       /\ q.status = 503
                       /\ q.body = "over capacity"
                       /\ RT'.last_error = <<"over_capacity">>
                       /\ RT'.inflight = RT.inflight
                  ELSE /\ InProgress(q)
                       /\ q.drop = <<f>>
                       /\ RT'.inflight = RT.inflight + 1
                       /\ RT'.fail = RT.fail
      ]_vars

(* One request holds the only slot; a second one is answered by the drop   *)
(* fault of mode 503 and not by the capacity check.                        *)
C21_Witness ==
    /\ RT.cfg.capacity = 1
    /\ RT.inflight = 1
    /\ InProgress(hreqs[1])
    /\ hreqs[2].pc = "done" /\ hreqs[2].body = "fault: drop 503"
    /\ hreqs[2].status = 503 /\ ~hreqs[2].admitted
    /\ RT.last_error = <<"fault_drop_503">>
    /\ RT.fail = 1

----------------------------------------------------------------------------
(* Which faults of a list can fire together: every fault of the kind that  *)
(* always fires, none that never fires, any of the others.                 *)

IndexesOf(fs, kind) == {i \in DOMAIN fs : fs[i].kind = kind}

FiringSets(fs, kind) ==
    {S \in SUBSET IndexesOf(fs, kind) :
        \A i \in IndexesOf(fs, kind) :
            /\ MustFire(fs[i]) => i \in S
            /\ ~CanFire(fs[i]) => i \notin S}

Lowest(S) == CHOOSE i \in S : \A j \in S : i <= j

(* The fault applied when the faults of S fire: the first one inserted.    *)
FirstOf(fs, S) == IF S = {} THEN <<>> ELSE <<fs[Lowest(S)]>>

(* C22: for one /handle request the extra delay is the sum of delay_ms     *)
(* over the delay faults that fire and the CPU burn the sum of burn_ms     *)
(* over the cpu_burn faults that fire, and the drop, corrupt and error     *)
(* fault applied is, of those that fire, the first in insertion order.     *)
C22_Composition ==
    LET fs == harness.active_faults IN
    /\ _sum_delay_ms(fs) =
          {SumOver([i \in DOMAIN fs |-> fs[i].spec.delay_ms], S) :
              S \in FiringSets(fs, "delay")}
    /\ _sum_cpu_burn_ms(fs) =
          {SumOver([i \in DOMAIN fs |-> fs[i].spec.burn_ms], S) :
              S \in FiringSets(fs, "cpu_burn")}
    /\ _pick_drop(fs) = {FirstOf(fs, S) : S \in FiringSets(fs, "drop")}
    /\ _pick_corrupt(fs) = {FirstOf(fs, S) : S \in FiringSets(fs, "corrupt")}
    /\ _pick_error(fs) = {FirstOf(fs, S) : S \in FiringSets(fs, "error")}
    /\ harness.applied =>
          /\ \E S \in FiringSets(fs, "delay") : harness.extra_delay_ms =
                SumOver([i \in DOMAIN fs |-> fs[i].spec.delay_ms], S)
          /\ \E S \in FiringSets(fs, "cpu_burn") : harness.burn_ms =
                SumOver([i \in DOMAIN fs |-> fs[i].spec.burn_ms], S)
          /\ \E S \in FiringSets(fs, "drop") : harness.drop = FirstOf(fs, S)
          /\ \E S \in FiringSets(fs, "corrupt") : harness.corrupt = FirstOf(fs, S)
          /\ \E S \in FiringSets(fs, "error") : harness.err_fault = FirstOf(fs, S)

(* Two delay faults fired and their delays were added; of two drop faults  *)
(* that could fire the first inserted was applied.                         *)
C22_Witness ==
    /\ harness.applied
    /\ Len(harness.active_faults) = 3
    /\ harness.active_faults[1].kind = "delay"
    /\ harness.active_faults[2].kind = "delay"
    /\ harness.extra_delay_ms = 30

----------------------------------------------------------------------------
FiveKinds == {"delay", "drop", "corrupt", "error", "cpu_burn"}

(* C23: POST /faults accepts a spec of each of the five kinds delay, drop, *)
(* corrupt, error and cpu_burn, storing it under a fresh id at the end of  *)
(* the registry, where list and the handler see it, and rejects any other  *)
(* kind without changing the registry.                                     *)
C23_AddAcceptsFiveKinds ==
    [][\A payload \in FaultPayloads : add_fault(payload) =>
         IF payload.kind \in FiveKinds
         THEN /\ ctl_resp'[1].status = 200
              /\ Len(RT'.faults) = Len(RT.faults) + 1
              /\ SubSeq(RT'.faults, 1, Len(RT.faults)) = RT.faults
              /\ LET f == RT'.faults[Len(RT'.faults)] IN
                   /\ f.kind = payload.kind
                   /\ f.spec = payload
                   /\ f.id = ctl_resp'[1].id
                   /\ \A g \in SeqSet(RT.faults) : g.id # f.id
         ELSE /\ ctl_resp'[1].status = 422
              /\ RT'.faults = RT.faults
      ]_vars

(* C24: an error fault that was posted is active, and with an active error *)
(* fault that fires and no drop fault of mode 503 firing, POST /handle     *)
(* answers the fault's status_code with the fault's message as error, adds *)
(* 1 to total and to fail, leaves ok and inflight as they are and never    *)
(* admits the request.                                                     *)
C24_ErrorFaultAnswers ==
    [][ /\ \A payload \in FaultPayloads :
              (add_fault(payload) /\ payload.kind = "error") =>
                  \E f \in SeqSet(RT'.faults) : f.kind = "error" /\ f.spec = payload
        /\ \A h \in H :
              ( /\ Entered(h)
                /\ \E f \in SeqSet(RT.faults) :
                      f.kind = "error" /\ MustFire(f) /\ ~ExpiringAt(f, now)
                /\ ~\E f \in SeqSet(RT.faults) :
                      /\ f.kind = "drop" /\ f.spec.mode = "503"
                      /\ CanFire(f) /\ ~ExpiredAt(f, now) ) =>
                /\ hreqs'[h].pc = "done"
                /\ \E f \in SeqSet(RT.faults) :
                      /\ f.kind = "error"
                      /\ hreqs'[h].status = f.spec.status_code
                      /\ hreqs'[h].body = f.spec.message
                /\ ~hreqs'[h].admitted
                /\ RT'.total = RT.total + 1
                /\ RT'.fail = RT.fail + 1
                /\ RT'.ok = RT.ok
                /\ RT'.inflight = RT.inflight
      ]_vars

----------------------------------------------------------------------------
(* Handler h left its await and ran on, on its own (not cancelled).        *)
Moved(h) ==
    /\ InProgress(hreqs[h])
    /\ hreqs'[h] # hreqs[h]
    /\ hreqs'[h].body # "cancelled"

(* The corrupt fault of the snapshot that fires for certain: it always     *)
(* fires and no corrupt fault before it can.                               *)
SurelyCorrupts(snap, i) ==
    /\ snap[i].kind = "corrupt" /\ MustFire(snap[i])
    /\ \A j \in 1..(i - 1) : ~(snap[j].kind = "corrupt" /\ CanFire(snap[j]))

CorruptBodies == {"CORRUPTED", "{worker, msg: CORRUPTED, simulated_ms: NaN}"}

(* C25: a corrupt fault that fires for an admitted /handle request takes   *)
(* effect only after the simulated-latency sleep: that step adds 1 to      *)
(* fail and nothing to ok, answers 500 with the text CORRUPTED for mode    *)
(* invalid_json and the JSON {worker, msg: CORRUPTED, simulated_ms: NaN}   *)
(* for mode bad_fields, and takes 1 off inflight.                          *)
C25_CorruptAfterLatency ==
    [][\A h \in H :
         /\ (Moved(h) /\ hreqs[h].pc = "latency") =>
               \A i \in DOMAIN hreqs[h].active_faults :
                  SurelyCorrupts(hreqs[h].active_faults, i) =>
                     LET c == hreqs[h].active_faults[i] IN
                     /\ hreqs'[h].pc = "done"
                     /\ hreqs'[h].status = 500
                     /\ hreqs'[h].body =
                           (IF c.spec.mode = "invalid_json" THEN "CORRUPTED"
                            ELSE "{worker, msg: CORRUPTED, simulated_ms: NaN}")
                     /\ RT'.fail = RT.fail + 1
                     /\ RT'.ok = RT.ok
                     /\ RT'.last_error = <<"fault_corrupt">>
                     /\ RT'.inflight = RT.inflight - 1
         /\ (hreqs'[h] # hreqs[h] /\ hreqs'[h].body \in CorruptBodies) =>
               hreqs[h].pc = "latency"
         /\ (Entered(h) /\ InProgress(hreqs'[h])) =>
               (RT'.fail = RT.fail /\ RT'.ok = RT.ok)
      ]_vars

C25_Witness ==
    /\ hreqs[1].pc = "done" /\ hreqs[1].admitted
    /\ hreqs[1].status = 500
    /\ hreqs[1].body = "{worker, msg: CORRUPTED, simulated_ms: NaN}"
    /\ RT.total = 1
    /\ RT.fail = 1
    /\ RT.ok = 0
    /\ RT.inflight = 0
    /\ RT.last_error = <<"fault_corrupt">>

----------------------------------------------------------------------------
Ids(fs) == {fs[i].id : i \in DOMAIN fs}

(* C27: DELETE /faults/{id} succeeds iff a fault with that id is in the    *)
(* registry and removes that fault and no other; an id that is not in the  *)
(* registry (deleted before, or never added) gives 404 and leaves the      *)
(* registry unchanged; an id once gone from the registry never comes back  *)
(* and no list returns an id that is not in the registry.                  *)
C27_DeleteById ==
    [][ /\ \A fault_id \in FaultIdInputs : delete_fault(fault_id) =>
              LET was == fault_id \in Ids(RT.faults) IN
              /\ ctl_resp'[1].status = (IF was THEN 200 ELSE 404)
              /\ SeqSet(RT'.faults) = {f \in SeqSet(RT.faults) : f.id # fault_id}
              /\ Len(RT'.faults) = Len(RT.faults) - (IF was THEN 1 ELSE 0)
              /\ ~was => RT'.faults = RT.faults
        /\ \A n \in 1..RT.uuids :
              FaultId(n) \notin Ids(RT.faults) => FaultId(n) \notin Ids(RT'.faults)
        /\ list_faults => Ids(ctl_resp'[1].faults) \subseteq Ids(RT.faults)
      ]_vars

(* A fault was added and deleted; the second delete of its id gives 404.   *)
C27_Witness ==
    /\ RT.uuids = 1
    /\ RT.faults = <<>>
    /\ now = 0
    /\ nctl = MaxCtlF - 3
    /\ ctl_resp # <<>>
    /\ ctl_resp[1].op = "delete_fault"
    /\ ctl_resp[1].id = FaultId(1)
    /\ ctl_resp[1].status = 404

----------------------------------------------------------------------------
Counters(m) == <<m.total, m.ok, m.fail>>

(* C28: POST /metrics/reset answers {before, after} with before the        *)
(* counters as they stood when the reset zeroed them and after having      *)
(* total = ok = fail = 0; it leaves total = ok = fail = 0 in the worker,   *)
(* so that a GET /metrics that follows, which returns the worker's         *)
(* counters as they stand, yields total = ok = fail = 0; the reset leaves  *)
(* inflight and the configuration unchanged.                               *)
C28_MetricsReset ==
    [][ /\ reset_metrics =>
              /\ Counters(ctl_resp'[1].before) = Counters(RT)
              /\ ctl_resp'[1].before.inflight = RT.inflight
              /\ Counters(ctl_resp'[1].after) = <<0, 0, 0>>
              /\ ctl_resp'[1].after.inflight = RT.inflight
              /\ Counters(RT') = <<0, 0, 0>>
              /\ RT'.inflight = RT.inflight
              /\ RT'.cfg = RT.cfg
        /\ metrics =>
              /\ Counters(ctl_resp'[1].metrics) = Counters(RT)
              /\ ctl_resp'[1].metrics.inflight = RT.inflight
              /\ RT' = RT
              /\ ( /\ ctl_resp # <<>>
                   /\ ctl_resp[1].op = "reset_metrics"
                   /\ Counters(RT) = Counters(ctl_resp[1].after) ) =>
                     Counters(ctl_resp'[1].metrics) = <<0, 0, 0>>
      ]_vars

(* A request was counted and is still in flight; the counters were reset   *)
(* and GET /metrics returns total = ok = fail = 0 with inflight = 1.       *)
C28_Witness ==
    /\ ctl_resp # <<>>
    /\ ctl_resp[1].op = "metrics"
    /\ Counters(ctl_resp[1].metrics) = <<0, 0, 0>>
    /\ ctl_resp[1].metrics.inflight = 1
    /\ RT.inflight = 1
    /\ nctl = MaxCtlK - 2

(***************************************************************************)
(* The client generator (clientgen/app.py).  STATE is one object shared by *)
(* the /start and /stop handlers and by every _traffic_loop task; cgtasks  *)
(* holds the loop tasks and the /stop handlers waiting for one of them.    *)
(***************************************************************************)
MaxSent == 1
MaxCtlG == 3

_State ==
    [ running |-> FALSE, task |-> None, started_at |-> None, rps |-> None,
      duration_sec |-> None, total_sent |-> 0, total_ok |-> 0, total_fail |-> 0,
      last_error |-> None ]

(* StartRequest: a run without a duration and a run of one second.         *)
StartRequests ==
    { [rps |-> 1, duration_sec |-> None], [rps |-> 2, duration_sec |-> Some(1)] }

(* asyncio.create_task(_traffic_loop(req)): the task holds its request; it *)
(* has not run yet.                                                        *)
LoopTask(req) ==
    [ kind |-> "loop", pc |-> "created", cancel |-> FALSE, req |-> req,
      deadline |-> None, awaits |-> 0 ]

(* A /stop handler suspended in `await STATE.task` on task i.              *)
StopTask(i) ==
    [ kind |-> "stop", pc |-> "await", cancel |-> FALSE, req |-> None,
      deadline |-> None, awaits |-> i ]

IsLoop(i) == i \in DOMAIN cgtasks /\ cgtasks[i].kind = "loop"

InitCG ==
    /\ workers = <<>>
    /\ weight_mode = "manual"
    /\ now = 0
    /\ RETRY_ATTEMPTS = 2
    /\ reqs = <<>>
    /\ nctl = MaxCtlG
    /\ ctl_resp = None
    /\ harness = NoHarness
    /\ history = None
    /\ RT = NoWorker
    /\ hreqs = <<>>
    /\ CgState = _State
    /\ cgtasks = <<>>
    /\ lock = None
    /\ procs = <<>>

CGRest == <<workers, weight_mode, RETRY_ATTEMPTS, reqs, harness, history, RT, hreqs, lock, procs>>

(* time.time() and time.monotonic() advance.                               *)
CGTick ==
    /\ now < MaxTime
    /\ now' = now + 1
    /\ UNCHANGED <<CGRest, nctl, ctl_resp, CgState, cgtasks>>

(* POST /start: refused while running; otherwise the flag is raised, the   *)
(* request is recorded and a new loop task is created (not yet run).       *)
start(req) ==
    /\ nctl > 0
    /\ nctl' = nctl - 1
    /\ IF CgState.running
         THEN /\ ctl_resp' = Some([op |-> "start", status |-> 409])
              /\ UNCHANGED <<CgState, cgtasks>>
         ELSE /\ CgState' = [CgState EXCEPT !.running = TRUE,
                                            !.started_at = Some(now),
                                            !.rps = Some(req.rps),
                                            !.duration_sec = req.duration_sec,
                                            !.last_error = None,
                                            !.task = Some(Len(cgtasks) + 1)]
              /\ cgtasks' = Append(cgtasks, LoopTask(req))
              /\ ctl_resp' = Some([op |-> "start", status |-> 200])
    /\ UNCHANGED <<CGRest, now>>

(* POST /stop up to its await.  A task created by an earlier /start has    *)
(* had its first step by then: the event loop runs a created task's first  *)
(* step before it reads the next request from a socket.                    *)
stop ==
    /\ nctl > 0
    /\ \A i \in DOMAIN cgtasks : cgtasks[i].pc # "created"
    /\ nctl' = nctl - 1
    /\ IF ~CgState.running
         THEN /\ ctl_resp' = Some([op |-> "stop", status |-> 200, message |-> "already stopped"])
              /\ UNCHANGED <<CgState, cgtasks>>
         ELSE IF CgState.task = None
                THEN /\ CgState' = [CgState EXCEPT !.running = FALSE]
                     /\ ctl_resp' = Some([op |-> "stop", status |-> 200, message |-> "stopped"])
                     /\ UNCHANGED cgtasks
                ELSE LET t == CgState.task[1] IN
                     /\ CgState' = [CgState EXCEPT !.running = FALSE]
                     /\ cgtasks' = Append([cgtasks EXCEPT ![t].cancel = (cgtasks[t].pc # "done")],
                                          StopTask(t))
                     /\ UNCHANGED ctl_resp
    /\ UNCHANGED <<CGRest, now>>

(* /stop after its await: the awaited task is done; STATE.task is cleared. *)
StopResume(i) ==
    /\ i \in DOMAIN cgtasks
    /\ cgtasks[i].kind = "stop"
    /\ cgtasks[i].pc = "await"
    /\ cgtasks[cgtasks[i].awaits].pc = "done"
    /\ CgState' = [CgState EXCEPT !.task = None]
    /\ cgtasks' = [cgtasks EXCEPT ![i].pc = "done"]
    /\ ctl_resp' = Some([op |-> "stop", status |-> 200, message |-> "stopped"])
    /\ UNCHANGED <<CGRest, now, nctl>>

(* The loop's finally block, with a variant that leaves the flag alone.    *)
loop_finally_KeepRunning(S) == [S EXCEPT !.task = None]

loop_finally(S) == [S EXCEPT !.running = FALSE, !.task = None]

(* The top of the while loop for task i, reached with STATE as S and the   *)
(* task's deadline d: the loop is left through the finally block when the  *)
(* flag is down or the deadline has passed, otherwise a request is counted *)
(* and posted.                                                             *)
LoopHead(S, i, d) ==
    IF ~S.running \/ (d # None /\ now >= d[1])
      THEN /\ CgState' = loop_finally(S)
           /\ cgtasks' = [cgtasks EXCEPT ![i].pc = "closing", ![i].deadline = d]
      ELSE /\ S.total_sent < MaxSent
           /\ CgState' = [S EXCEPT !.total_sent = @ + 1]
           /\ cgtasks' = [cgtasks EXCEPT ![i].pc = "post", ![i].deadline = d]

(* A loop task's first step: the deadline is computed from its request,    *)
(* the client is opened and the loop is entered.                           *)
LoopStart(i) ==
    /\ IsLoop(i)
    /\ cgtasks[i].pc = "created"
    /\ LET d == cgtasks[i].req.duration_sec IN
       LoopHead(CgState, i, IF d = None THEN None ELSE Some(now + d[1]))
    /\ UNCHANGED <<CGRest, now, nctl, ctl_resp>>

(* client.post returns or raises: the request is counted as ok or failed;  *)
(* then the loop sleeps when time is left in the interval, or goes round.  *)
PostOutcomes == {"2xx", "5xx", "exception"}

LoopPostReturn(i, out, sleeps) ==
    /\ IsLoop(i)
    /\ cgtasks[i].pc = "post"
    /\ ~cgtasks[i].cancel
    /\ LET S == IF out = "2xx"
                  THEN [CgState EXCEPT !.total_ok = @ + 1]
                  ELSE [CgState EXCEPT !.total_fail = @ + 1, !.last_error = Some(out)]
       IN  IF sleeps
             THEN /\ CgState' = S
                  /\ cgtasks' = [cgtasks EXCEPT ![i].pc = "sleep"]
             ELSE LoopHead(S, i, cgtasks[i].deadline)
    /\ UNCHANGED <<CGRest, now, nctl, ctl_resp>>

(* asyncio.sleep returns.                                                  *)
LoopWake(i) ==
    /\ IsLoop(i)
    /\ cgtasks[i].pc = "sleep"
    /\ ~cgtasks[i].cancel
    /\ LoopHead(CgState, i, cgtasks[i].deadline)
    /\ UNCHANGED <<CGRest, now, nctl, ctl_resp>>

(* task.cancel() from outside the handlers, on a task that is waiting.     *)
LoopCancel(i) ==
    /\ IsLoop(i)
    /\ cgtasks[i].pc \in {"post", "sleep"}
    /\ ~cgtasks[i].cancel
    /\ nctl > 0
    /\ nctl' = nctl - 1
    /\ cgtasks' = [cgtasks EXCEPT ![i].cancel = TRUE]
    /\ UNCHANGED <<CGRest, now, ctl_resp, CgState>>

(* CancelledError is raised in the task at its await: `except Exception`   *)
(* does not catch it, the finally block runs.                              *)
LoopCancelled(i) ==
    /\ IsLoop(i)
    /\ cgtasks[i].pc \in {"post", "sleep"}
    /\ cgtasks[i].cancel
    /\ CgState' = loop_finally(CgState)
    /\ cgtasks' = [cgtasks EXCEPT ![i].pc = "closing"]
    /\ UNCHANGED <<CGRest, now, nctl, ctl_resp>>

(* The client is closed on the way out of `async with`; the task ends.     *)
LoopClose(i) ==
    /\ IsLoop(i)
    /\ cgtasks[i].pc = "closing"
    /\ cgtasks' = [cgtasks EXCEPT ![i].pc = "done"]
    /\ UNCHANGED <<CGRest, now, nctl, ctl_resp, CgState>>

NextCG ==
    \/ CGTick
    \/ \E req \in StartRequests : start(req)
    \/ stop
    \/ \E i \in DOMAIN cgtasks : StopResume(i)
    \/ \E i \in DOMAIN cgtasks : LoopStart(i)
    \/ \E i \in DOMAIN cgtasks, out \in PostOutcomes, sleeps \in BOOLEAN :
          LoopPostReturn(i, out, sleeps)
    \/ \E i \in DOMAIN cgtasks : LoopWake(i)
    \/ \E i \in DOMAIN cgtasks : LoopCancel(i)
    \/ \E i \in DOMAIN cgtasks : LoopCancelled(i)
    \/ \E i \in DOMAIN cgtasks : LoopClose(i)

SpecCG == InitCG /\ [][NextCG]_vars

(***************************************************************************)
(* C29.  Whenever a traffic loop task ends - cancelled, at its deadline or *)
(* after /stop - the running flag is false afterwards, and /start while    *)
(* running answers 409 and changes no state.  Spelled out: the step in     *)
(* which a loop task leaves its loop lowers the flag; the flag is up only  *)
(* while some loop task has not left its loop yet, so it is down once      *)
(* every task has ended; it is raised by an accepted /start only; and a    *)
(* /start that finds it up answers 409 and leaves STATE and the tasks as   *)
(* they were.                                                              *)
(***************************************************************************)
InLoop(T, i) ==
    /\ i \in DOMAIN T
    /\ T[i].kind = "loop"
    /\ T[i].pc \in {"created", "post", "sleep"}

MaxProcs == 2

(* The operations whose block that writes weights, or selects, is under    *)
(* `async with` on the mutex; the first variant leaves the manual weight   *)
(* PATCH out.                                                              *)
LockedCalls_NoManual ==
    {"choose", "health", "auto", "set_mode", "clear_manual", "patch_config", "reset"}

LockedCalls ==
    {"choose", "health", "auto", "set_mode", "set_manual", "clear_manual",
     "patch_config", "reset"}

(* The probe rounds a health task can come back with.                      *)
MutexProbes ==
    << [i \in 1..2 |-> [err |-> None, worker_id |-> None, weight |-> Some(2),
                        base_lat_ms |-> None]],
       [i \in 1..2 |-> [err |-> IF i = 1 THEN Some("down") ELSE None,
                        worker_id |-> None, weight |-> None, base_lat_ms |-> None]] >>

Call(op, i, v, mode) == [op |-> op, i |-> i, v |-> v, mode |-> mode]

(* The calls a task can be: a selection, a probe round, an auto-weight     *)
(* round and the control-plane writes.                                     *)
Calls ==
    { Call("choose", 0, 0, ""), Call("health", 0, 1, ""), Call("health", 0, 2, ""),
      Call("auto", 0, 0, ""), Call("set_mode", 0, 0, "manual"),
      Call("set_mode", 0, 0, "auto"), Call("set_manual", 1, 3, ""),
      Call("clear_manual", 1, 0, ""), Call("patch_config", 2, 3, ""),
      Call("reset", 0, 0, "") }

Proc(call) ==
    [ call |-> call, pc |-> "start", eligible |-> <<>>, total |-> 0, k |-> 0,
      best |-> 0, ret |-> 0 ]

(* What the block under the mutex of a call other than choose() writes.    *)
LockedWrites(ws, mode, call) ==
    CASE call.op = "health" ->
           [ws |-> [i \in 1..Len(ws) |-> ApplyProbe(ws[i], MutexProbes[call.v][i], mode, now)],
            mode |-> mode]
      [] call.op = "auto" ->
           [ws |-> RecomputeAll(_compute_auto_weights(ws), mode), mode |-> mode]
      [] call.op = "set_mode" ->
           [ws |-> RecomputeAll(ws, call.mode), mode |-> call.mode]
      [] call.op = "set_manual" ->
           [ws |-> [ws EXCEPT ![call.i] =
                      recompute_effective([@ EXCEPT !.manual_weight = Some(call.v)], mode)],
            mode |-> mode]
      [] call.op = "clear_manual" ->
           [ws |-> [ws EXCEPT ![call.i] =
                      recompute_effective([@ EXCEPT !.manual_weight = None], mode)],
            mode |-> mode]
      [] call.op = "patch_config" ->
           [ws |-> [ws EXCEPT ![call.i] =
                      recompute_effective(
                          [@ EXCEPT !.reported_weight = Max(1, call.v),
                                    !.reported_base_lat_ms = Some(20),
                                    !.last_error = None], mode)],
            mode |-> mode]
      [] call.op = "reset" ->
           [ws |-> [i \in 1..Len(ws) |-> ResetWorker(ws[i])], mode |-> mode]

(* The run the tasks are compared with: the same calls made one at a time, *)
(* each as a whole, in the order in which the tasks leave the mutex.       *)
OneAtATime(ref, p, call) ==
    IF call.op = "choose"
      THEN LET r == Choose(ref.ws, now) IN
           [ref EXCEPT !.ws = r.ws, !.rets[p] = r.best]
      ELSE LET r == LockedWrites(ref.ws, ref.mode, call) IN
           [ref EXCEPT !.ws = r.ws, !.mode = r.mode]

InitMutex ==
    /\ \E m \in Modes, on \in BOOLEAN :
          /\ workers = << recompute_effective(
                             [WorkerState(Host(1), Url(Host(1))) EXCEPT
                                 !.reported_weight = 3, !.manual_weight = Some(2),
                                 !.ok = 1], m),
                          recompute_effective(
                             [WorkerState(Host(2), Url(Host(2))) EXCEPT
                                 !.online = on], m) >>
          /\ weight_mode = m
    /\ now = 0
    /\ RETRY_ATTEMPTS = 1
    /\ reqs = <<>>
    /\ nctl = 0
    /\ ctl_resp = None
    /\ harness = [ws |-> workers, mode |-> weight_mode, rets |-> [p \in 1..MaxProcs |-> 0]]
    /\ history = None
    /\ RT = NoWorker
    /\ hreqs = <<>>
    /\ CgState = <<>>
    /\ cgtasks = <<>>
    /\ lock = None
    /\ procs \in [1..MaxProcs -> {Proc(c) : c \in Calls}]

MutexRest == <<now, RETRY_ATTEMPTS, reqs, nctl, ctl_resp, history, RT, hreqs, CgState, cgtasks>>

(* What a task does before it asks for the mutex: the manual-weight PATCH  *)
(* answers 409 outside manual mode, the auto loop skips a round outside    *)
(* auto mode.                                                              *)
Enter(p) ==
    /\ procs[p].pc = "start"
    /\ LET op == procs[p].call.op
           refused == \/ op = "set_manual" /\ weight_mode # "manual"
                      \/ op = "auto" /\ weight_mode # "auto"
       IN procs' = [procs EXCEPT ![p].pc = IF refused THEN "done" ELSE "wait"]
    /\ UNCHANGED <<MutexRest, workers, weight_mode, harness, lock>>

(* `async with lock`: the task goes on once the mutex is free, and holds   *)
(* it.  A block that is not under the mutex is entered as it is.           *)
Acquire(p) ==
    /\ procs[p].pc = "wait"
    /\ IF procs[p].call.op \in LockedCalls
         THEN /\ lock = None
              /\ lock' = Some(p)
         ELSE UNCHANGED lock
    /\ procs' = [procs EXCEPT ![p].pc = IF procs[p].call.op = "choose" THEN "scan" ELSE "write"]
    /\ UNCHANGED <<MutexRest, workers, weight_mode, harness>>

(* choose(): the eligible list and the total of its effective weights;     *)
(* None is returned when the list is empty.                                *)
ChooseScan(p) ==
    /\ procs[p].pc = "scan"
    /\ LET elig == EligibleList(workers, now) IN
         procs' = [procs EXCEPT ![p].eligible = elig,
                                ![p].total = EligibleTotal(workers, elig),
                                ![p].k = 1,
                                ![p].pc = IF Len(elig) = 0 THEN "release" ELSE "add"]
    /\ UNCHANGED <<MutexRest, workers, weight_mode, harness, lock>>

(* choose(): one round of the for loop.                                    *)
ChooseAdd(p) ==
    /\ procs[p].pc = "add"
    /\ LET q == procs[p]
           i == q.eligible[q.k]
           ws1 == [workers EXCEPT ![i].current_weight = @ + workers[i].effective_weight]
           b1 == IF q.best = 0 \/ ws1[i].current_weight > ws1[q.best].current_weight
                 THEN i ELSE q.best
       IN /\ workers' = ws1
          /\ procs' = [procs EXCEPT ![p].best = b1,
                                    ![p].k = q.k + 1,
                                    ![p].pc = IF q.k = Len(q.eligible) THEN "pick" ELSE "add"]
    /\ UNCHANGED <<MutexRest, weight_mode, harness, lock>>

(* choose(): the total is taken off the best worker, which is returned.    *)
ChoosePick(p) ==
    /\ procs[p].pc = "pick"
    /\ LET q == procs[p] IN
         /\ workers' = [workers EXCEPT ![q.best].current_weight = @ - q.total,
                                       ![q.best].assigned = @ + 1]
         /\ procs' = [procs EXCEPT ![p].ret = q.best, ![p].pc = "release"]
    /\ UNCHANGED <<MutexRest, weight_mode, harness, lock>>

(* The block of a call other than choose().                                *)
Write(p) ==
    /\ procs[p].pc = "write"
    /\ LET r == LockedWrites(workers, weight_mode, procs[p].call) IN
         /\ workers' = r.ws
         /\ weight_mode' = r.mode
    /\ procs' = [procs EXCEPT ![p].pc = "release"]
    /\ UNCHANGED <<MutexRest, harness, lock>>

(* The end of the block: the mutex is given back by the task that holds    *)
(* it.  The one-at-a-time run makes the same call here.                    *)
Release(p) ==
    /\ procs[p].pc = "release"
    /\ lock' = IF lock = Some(p) THEN None ELSE lock
    /\ procs' = [procs EXCEPT ![p].pc = "done"]
    /\ harness' = OneAtATime(harness, p, procs[p].call)
    /\ UNCHANGED <<MutexRest, workers, weight_mode>>

NextMutex ==
    \/ \E p \in DOMAIN procs : Enter(p)
    \/ \E p \in DOMAIN procs : Acquire(p)
    \/ \E p \in DOMAIN procs : ChooseScan(p)
    \/ \E p \in DOMAIN procs : ChooseAdd(p)
    \/ \E p \in DOMAIN procs : ChoosePick(p)
    \/ \E p \in DOMAIN procs : Write(p)
    \/ \E p \in DOMAIN procs : Release(p)

SpecMutex == InitMutex /\ [][NextMutex]_vars

(***************************************************************************)
(* C30.  Selector mutex discipline: after start-up every write to a        *)
(* worker's reported_weight, manual_weight, auto_weight, effective_weight  *)
(* or current_weight, and every statement of choose(), is a step of the    *)
(* task that holds the selector mutex; no two tasks are inside such a      *)
(* block at once; and concurrent choose() calls behave as if made one at a *)
(* time: whenever the mutex is free, the workers' weights and the values   *)
(* the finished choose() calls returned are those of the same calls made   *)
(* one at a time in the order in which they left the mutex.                *)
(***************************************************************************)
WeightsOf(w) ==
    <<w.reported_weight, w.manual_weight, w.auto_weight, w.effective_weight,
      w.current_weight>>

InBlock(q) == q.pc \in {"scan", "add", "pick", "write", "release"}

StepOf(p) == procs'[p] # procs[p]

C30_MutexDiscipline ==
    /\ [][ /\ (\E i \in DOMAIN workers : WeightsOf(workers'[i]) # WeightsOf(workers[i])) =>
                \E p \in DOMAIN procs : StepOf(p) /\ lock = Some(p) /\ lock' = Some(p)
           /\ \A p \in DOMAIN procs :
                (StepOf(p) /\ procs[p].call.op = "choose" /\ InBlock(procs[p])) =>
                    lock = Some(p)
         ]_vars
    /\ [](\A p, q \in DOMAIN procs : (InBlock(procs[p]) /\ InBlock(procs[q])) => p = q)
    /\ []( lock = None =>
             /\ \A i \in DOMAIN workers : WeightsOf(workers[i]) = WeightsOf(harness.ws[i])
             /\ \A p \in DOMAIN procs :
                  (procs[p].pc = "done" /\ procs[p].call.op = "choose") =>
                      procs[p].ret = harness.rets[p] )

(* Two tasks each called choose(); both calls have returned a worker and   *)
(* the mutex is free again.                                                *)
C30_Witness ==
    /\ \A p \in 1..2 : procs[p].call.op = "choose" /\ procs[p].pc = "done"
    /\ procs[1].ret # 0
    /\ procs[2].ret # 0
    /\ lock = None
    /\ workers[1].current_weight # 0

(***************************************************************************)
(* C31.  choose() returns the eligible worker whose current_weight, after  *)
(* its effective_weight has been added, is the largest; when several       *)
(* eligible workers share that largest value, the one that comes first in  *)
(* the registry is returned.                                               *)
(***************************************************************************)
RaisedWeight(i) == workers[i].current_weight + workers[i].effective_weight

C31_MaxFirstWins ==
    [][ harness'.ncalls = harness.ncalls + 1 =>
          IF EligibleSet = {} THEN harness'.ret = 0
          ELSE LET b == harness'.ret IN
               /\ b \in EligibleSet
               /\ \A j \in EligibleSet : RaisedWeight(j) <= RaisedWeight(b)
               /\ \A j \in EligibleSet : j < b => RaisedWeight(j) < RaisedWeight(b)
      ]_vars

(* Weights 2, 2, 1: the first call finds workers 1 and 2 tied at 2 and     *)
(* returned worker 1, whose current_weight is then 2 - 5.                  *)
C31_Witness ==
    /\ WeightsAre(2, 2, 1)
    /\ harness.ncalls = 1
    /\ harness.ret = 1
    /\ workers[1].current_weight = -3
    /\ workers[2].current_weight = 2

(***************************************************************************)
(* The selector under everything that can change eligibility, weights or   *)
(* the mode between two choose() calls of one request: the clock, the      *)
(* prober, the auto-weight controller, the control plane and the reset.    *)
(***************************************************************************)
MaxCtlP == 1

InitFrame ==
    /\ \E n \in PoolSizes, m \in Modes :
          /\ workers = [i \in 1..n |->
                          recompute_effective(WorkerState(Host(i), Url(Host(i))), m)]
          /\ weight_mode = m
    /\ now = 0
    /\ RETRY_ATTEMPTS = 2
    /\ reqs = IdleReqs(1)
    /\ nctl = MaxCtlP
    /\ ctl_resp = None
    /\ harness = NoHarness
    /\ history = None
    /\ RT = NoWorker
    /\ hreqs = <<>>
    /\ Idle

(* Probe rounds in which a worker fails or answers, and the round in which *)
(* every worker reports weight 2; the control plane addresses worker 1.    *)
FrameProbes ==
    BasicProbes \cup
    { [i \in 1..Len(workers) |->
          [err |-> None, worker_id |-> None, weight |-> Some(2), base_lat_ms |-> None]] }
FrameIds == {Host(1)}

NextFrame ==
    \/ Tick
    \/ \E r \in DOMAIN reqs : ReqChoose(r)
    \/ \E r \in DOMAIN reqs, out \in ForwardOutcomes : ReqForwardReturn(r, out)
    \/ \E res \in FrameProbes : HealthTick(res)
    \/ AutoTick
    \/ \E m \in Modes : set_weight_mode(m)
    \/ \E id \in FrameIds : set_manual_weight(id, 3)
    \/ \E id \in FrameIds : clear_manual_weight(id)
    \/ \E id \in FrameIds, resp \in ConfigResponses : patch_worker_config(id, resp)
    \/ \E inp \in ResetInputsOk : reset_experiment(inp)

SpecFrame == InitFrame /\ [][NextFrame]_vars

(***************************************************************************)
(* C32.  choose() leaves the current_weight and assigned of every          *)
(* ineligible worker as they were, so a worker that becomes ineligible     *)
(* keeps its current_weight until it returns; apart from choose() acting   *)
(* on an eligible worker, a worker's current_weight changes only in POST   *)
(* /experiment/reset, which sets it to 0: no health probe, mode switch,    *)
(* weight change, config patch or disabling touches it.                    *)
(***************************************************************************)
ResetStep ==
    /\ nctl' = nctl - 1
    /\ ctl_resp' # None
    /\ ctl_resp'[1].op = "reset"
    /\ \E inp \in ResetInputs : reset_experiment(inp)

C32_CurrentWeightKept ==
    [][ /\ \A r \in DOMAIN reqs : Chose(r) =>
              \A i \in W \ EligibleSet :
                  /\ workers'[i].current_weight = workers[i].current_weight
                  /\ workers'[i].assigned = workers[i].assigned
        /\ \A i \in W :
              workers'[i].current_weight # workers[i].current_weight =>
                  \/ i \in EligibleSet /\ \E r \in DOMAIN reqs : Chose(r)
                  \/ ResetStep
        /\ ResetStep => \A i \in W : workers'[i].current_weight = 0
      ]_vars

(* Worker 1 was chosen, its forward failed, and the second choose() of the *)
(* request took worker 2 while worker 1, inside its disable window, kept   *)
(* its current_weight of -1.                                               *)
C32_Witness ==
    /\ Len(workers) = 2
    /\ reqs[1].attempt = 2
    /\ reqs[1].w = 2
    /\ ~IsEligible(workers[1], now)
    /\ workers[1].current_weight = -1
    /\ workers[1].assigned = 1
    /\ workers[2].current_weight = 1

(***************************************************************************)
(* The prober beside one request, the clock and the mode switch.  Worker 1 *)
(* has been given a manual weight, so that in manual mode its effective    *)
(* weight is not the reported one.                                         *)
(***************************************************************************)
MaxCtlT == 1

InitHealth ==
    /\ \E n \in PoolSizes, m \in Modes :
          /\ workers = [i \in 1..n |->
                          recompute_effective(
                              [WorkerState(Host(i), Url(Host(i))) EXCEPT
                                  !.manual_weight = IF i = 1 THEN Some(3) ELSE None], m)]
          /\ weight_mode = m
    /\ now = 0
    /\ RETRY_ATTEMPTS = 1
    /\ reqs = IdleReqs(1)
    /\ nctl = MaxCtlT
    /\ ctl_resp = None
    /\ harness = NoHarness
    /\ history = None
    /\ RT = NoWorker
    /\ hreqs = <<>>
    /\ Idle

NextHealth ==
    \/ Tick
    \/ \E r \in DOMAIN reqs : ReqChoose(r)
    \/ \E r \in DOMAIN reqs, out \in ForwardOutcomes : ReqForwardReturn(r, out)
    \/ \E res \in AllProbes : HealthTick(res)
    \/ \E m \in Modes : set_weight_mode(m)

SpecHealth == InitHealth /\ [][NextHealth]_vars

(***************************************************************************)
(* C33.  In one health tick each worker's probe outcome is applied on its  *)
(* own.  A probe that succeeded sets online, last_seen = now and clears    *)
(* last_error, adopts the worker_id, weight (at least 1) and base_lat_ms   *)
(* the worker reported, and recomputes effective_weight for the current    *)
(* mode; a probe that failed sets online = false and last_error =          *)
(* "health: " + error and changes nothing else (no weight, counter or      *)
(* disabled_until).  What one worker's probe did never changes what is     *)
(* applied to another worker in the same tick.                             *)
(***************************************************************************)
EffectiveFor(w, mode) ==
    LET override == IF mode = "manual" THEN w.manual_weight
                    ELSE IF mode = "auto" THEN w.auto_weight ELSE <<>>
        base == IF override = <<>> THEN w.reported_weight ELSE override[1]
    IN IF base < 1 THEN 1 ELSE base

ProbeApplied(w, w2, p) ==
    IF p.err # <<>>
      THEN w2 = [w EXCEPT !.online = FALSE,
                          !.last_error = <<"health: " \o p.err[1]>>]
      ELSE /\ w2.online
           /\ w2.last_seen = now
           /\ w2.last_error = <<>>
           /\ w2.id = (IF p.worker_id # <<>> THEN p.worker_id[1] ELSE w.id)
           /\ w2.reported_weight =
                 (IF p.weight = <<>> THEN w.reported_weight
                  ELSE IF p.weight[1] < 1 THEN 1 ELSE p.weight[1])
           /\ w2.reported_base_lat_ms =
                 (IF p.base_lat_ms # <<>> THEN p.base_lat_ms ELSE w.reported_base_lat_ms)
           /\ w2.effective_weight = EffectiveFor(w2, weight_mode)
           /\ w2 = [w EXCEPT !.online = w2.online, !.last_seen = w2.last_seen,
                             !.last_error = w2.last_error, !.id = w2.id,
                             !.reported_weight = w2.reported_weight,
                             !.reported_base_lat_ms = w2.reported_base_lat_ms,
                             !.effective_weight = w2.effective_weight]

C33_ProbesIndependent ==
    [][ nctl' # nctl =>
            \A res \in AllProbes : HealthTick(res) =>
                \A i \in W : ProbeApplied(workers[i], workers'[i], res[i])
      ]_vars

(* One tick at time 1, in manual mode: the probe of worker 1 failed after  *)
(* its forward had failed, and worker 2 answered in the same tick with its *)
(* id and a weight of 0, which was adopted as 1.                           *)
C33_Witness ==
    /\ Len(workers) = 2
    /\ ~workers[1].online
    /\ workers[1].last_error = Some("health: down")
    /\ workers[1].fail = 1
    /\ workers[1].disabled_until = DISABLE_ON_FAIL_SEC
    /\ workers[1].effective_weight = 3
    /\ workers[2].online
    /\ workers[2].id = ReportedId(2)
    /\ workers[2].last_seen = 1
    /\ workers[2].reported_weight = 1
    /\ workers[2].reported_base_lat_ms = Some(20)
    /\ nctl = MaxCtlT - 1

(***************************************************************************)
(* The auto-weight controller over workers with a history: each worker has *)
(* been online or not, has served no request or some, with or without      *)
(* failures, at an average latency of 10 or 100 ms or with none sampled,   *)
(* and may hold an auto_weight from an earlier round.                      *)
(***************************************************************************)
MaxCtlA == 1

(* ok and fail counts: fail rates 0, 0, 1/4, 1/2 and 1.                    *)
AutoCounts == { <<0, 0>>, <<9, 0>>, <<3, 1>>, <<1, 1>>, <<0, 1>> }

(* avg_latency_ms and reported_base_lat_ms.                                *)
AutoLatencies ==
    { <<Rat(0, 1), None>>, <<Rat(0, 1), Some(20)>>, <<Rat(10, 1), Some(20)>>,
      <<Rat(100, 1), Some(20)>> }

AutoWorker(i, on, c, l, aw, mode) ==
    recompute_effective(
        [WorkerState(Host(i), Url(Host(i))) EXCEPT
            !.online = on, !.ok = c[1], !.fail = c[2], !.assigned = c[1] + c[2],
            !.avg_latency_ms = l[1], !.reported_base_lat_ms = l[2],
            !.auto_weight = aw], mode)

InitAuto ==
    /\ \E n \in PoolSizes, m \in Modes :
          /\ \E on \in [1..n -> BOOLEAN], c \in [1..n -> AutoCounts],
                l \in [1..n -> AutoLatencies], aw \in [1..n -> {None, Some(4)}] :
                workers = [i \in 1..n |-> AutoWorker(i, on[i], c[i], l[i], aw[i], m)]
          /\ weight_mode = m
    /\ now = 0
    /\ RETRY_ATTEMPTS = 1
    /\ reqs = <<>>
    /\ nctl = MaxCtlA
    /\ ctl_resp = None
    /\ harness = NoHarness
    /\ history = None
    /\ RT = NoWorker
    /\ hreqs = <<>>
    /\ Idle

NextAuto ==
    \/ AutoTick
    \/ \E m \in Modes : set_weight_mode(m)

SpecAuto == InitAuto /\ [][NextAuto]_vars

(***************************************************************************)
(* C34.  The auto-weight controller changes state only while the mode is   *)
(* auto.  In manual mode a controller tick changes no worker's auto_weight *)
(* or effective_weight.  In auto mode a tick leaves the auto_weight of an  *)
(* offline worker at its previous value, and in the same step in which     *)
(* the new auto_weights are written the effective_weight of every worker   *)
(* is recomputed from them.                                                *)
(***************************************************************************)
C34_AutoOnlyInAuto ==
    [][ AutoTick =>
          IF weight_mode # "auto"
            THEN workers' = workers
            ELSE \A i \in W :
                   /\ ~workers[i].online =>
                         workers'[i].auto_weight = workers[i].auto_weight
                   /\ workers'[i].effective_weight = EffectiveFor(workers'[i], "auto")
                   /\ workers'[i] = [workers[i] EXCEPT
                                        !.auto_weight = workers'[i].auto_weight,
                                        !.effective_weight = workers'[i].effective_weight]
      ]_vars

(* After a tick in auto mode: worker 1, offline, still holds the           *)
(* auto_weight 4 of an earlier round and worker 2 holds AUTO_WEIGHT_MAX,   *)
(* each with its effective_weight equal to it.                             *)
C34_Witness ==
    /\ Len(workers) = 2
    /\ weight_mode = "auto"
    /\ nctl = MaxCtlA - 1
    /\ ~workers[1].online
    /\ workers[1].auto_weight = Some(4)
    /\ workers[1].effective_weight = 4
    /\ workers[2].online
    /\ workers[2].auto_weight = Some(AUTO_WEIGHT_MAX)
    /\ workers[2].effective_weight = AUTO_WEIGHT_MAX

(***************************************************************************)
(* Quantities of the auto-weight claims, as the specification words them:  *)
(* L = avg_latency_ms if positive, else reported_base_lat_ms, else 50;     *)
(* f = fail / max(1, ok + fail); score s = 1 / (L + 1) * (1 - f).          *)
(* Fractions are compared by cross-multiplication.                         *)
(***************************************************************************)
LatOf(w) ==
    IF w.avg_latency_ms.n > 0 THEN w.avg_latency_ms
    ELSE IF w.reported_base_lat_ms # <<>> /\ w.reported_base_lat_ms[1] > 0
           THEN [n |-> w.reported_base_lat_ms[1], d |-> 1]
           ELSE [n |-> 50, d |-> 1]
Served(w) == IF w.ok + w.fail < 1 THEN 1 ELSE w.ok + w.fail
ScoreNum(w) == LatOf(w).d * (Served(w) - w.fail)
ScoreDen(w) == (LatOf(w).n + LatOf(w).d) * Served(w)
ScoreLeq(a, b) == ScoreNum(a) * ScoreDen(b) <= ScoreNum(b) * ScoreDen(a)
SameFailRate(a, b) == a.fail * Served(b) = b.fail * Served(a)
LatLess(a, b) == LatOf(a).n * LatOf(b).d < LatOf(b).n * LatOf(a).d
LatIs(w, ms) == w.avg_latency_ms.n = ms * w.avg_latency_ms.d
Online == {i \in W : workers[i].online}
Computed == AutoTick /\ weight_mode = "auto"
AW(i) == workers'[i].auto_weight[1]

(* C35 as stated: after an auto-weight computation every online worker's   *)
(* auto_weight lies in [1, AUTO_WEIGHT_MAX] and the online worker with the *)
(* highest score gets AUTO_WEIGHT_MAX; of two online workers with equal    *)
(* fail rates the one with the lower latency never gets the smaller        *)
(* auto_weight, and with latencies 10 and 100 the faster one gets a        *)
(* strictly larger auto_weight.                                            *)
C35_AutoWeights ==
    [][ Computed =>
          /\ \A i \in Online : workers'[i].auto_weight # <<>> /\ AW(i) \in 1..AUTO_WEIGHT_MAX
          /\ \A i \in Online :
                (\A j \in Online : ScoreLeq(workers[j], workers[i])) => AW(i) = AUTO_WEIGHT_MAX
          /\ \A i, j \in Online :
                (SameFailRate(workers[i], workers[j]) /\ LatLess(workers[i], workers[j])) =>
                    AW(i) >= AW(j)
          /\ \A i, j \in Online :
                ( /\ SameFailRate(workers[i], workers[j])
                  /\ LatIs(workers[i], 10) /\ LatIs(workers[j], 100) ) => AW(i) > AW(j)
      ]_vars

(* C35, amended: the highest-scoring online worker gets AUTO_WEIGHT_MAX    *)
(* when its score is positive, and when every online worker's score is 0   *)
(* (each has failed every request) each gets 1; with latencies 10 and 100  *)
(* and equal fail rates below 1, in a pool whose online workers are these  *)
(* two, the faster one gets a strictly larger auto_weight.  The range      *)
(* [1, AUTO_WEIGHT_MAX] and the ordering by latency hold as stated.        *)
C35_AutoWeightsPositive ==
    [][ Computed =>
          /\ \A i \in Online : workers'[i].auto_weight # <<>> /\ AW(i) \in 1..AUTO_WEIGHT_MAX
          /\ \A i \in Online :
                (\A j \in Online : ScoreLeq(workers[j], workers[i])) =>
                    AW(i) = (IF ScoreNum(workers[i]) > 0 THEN AUTO_WEIGHT_MAX ELSE 1)
          /\ \A i, j \in Online :
                (SameFailRate(workers[i], workers[j]) /\ LatLess(workers[i], workers[j])) =>
                    AW(i) >= AW(j)
          /\ \A i, j \in Online :
                ( /\ SameFailRate(workers[i], workers[j])
                  /\ workers[i].fail < Served(workers[i])
                  /\ Online = {i, j}
                  /\ LatIs(workers[i], 10) /\ LatIs(workers[j], 100) ) => AW(i) > AW(j)
      ]_vars

(* After a computation: two online workers that each failed one request in *)
(* four, at 10 ms and 100 ms, hold auto_weights 10 and 1.                  *)
C35_Witness ==
    /\ Len(workers) = 2
    /\ weight_mode = "auto"
    /\ nctl = MaxCtlA - 1
    /\ \A i \in 1..2 : workers[i].online /\ workers[i].ok = 3 /\ workers[i].fail = 1
    /\ workers[1].avg_latency_ms = [n |-> 10, d |-> 1]
    /\ workers[2].avg_latency_ms = [n |-> 100, d |-> 1]
    /\ workers[1].auto_weight = Some(AUTO_WEIGHT_MAX)
    /\ workers[2].auto_weight = Some(1)

(***************************************************************************)
(* C36.  The error status of a failed /request tells whether a forward was *)
(* tried: a finished request on which at least one forward was made, every *)
(* one of which raised or came back with a 5xx, has status 502 and carries *)
(* the last error string; a finished request has status 503 only if no     *)
(* forward was made for it.  For every pool size and RETRY_ATTEMPTS >= 1.  *)
(***************************************************************************)
C36_ErrorStatusTellsForward ==
    RETRY_ATTEMPTS >= 1 =>
        \A r \in DOMAIN reqs :
            LET q == reqs[r] IN
            q.pc = "done" =>
                /\ (Len(q.log) >= 1 /\ \A k \in 1..Len(q.log) : Retried(q.log[k].out)) =>
                      /\ q.status = 502
                      /\ q.detail = <<"All attempts failed: " \o ErrOf(q.log[Len(q.log)].out)>>
                /\ q.status = 503 => Len(q.log) = 0

(***************************************************************************)
(* C37.  The sum of current_weight over all workers of the registry is 0   *)
(* in every reachable state: each choose() adds the eligible total across  *)
(* the eligible workers and takes it off the chosen one, whatever happened *)
(* to eligibility, weights or the mode between two calls, and the reset    *)
(* sets every current_weight to 0.                                         *)
(***************************************************************************)
C37_CurrentWeightsSumToZero ==
    SumOver([i \in 1..Len(workers) |-> workers[i].current_weight], 1..Len(workers)) = 0

(* Worker 1 was chosen and failed; after its disable window its manual     *)
(* weight was set to 3, and the second choose() of the request, over both  *)
(* workers, took worker 1 again: the current weights are -2 and 2.         *)
C37_Witness ==
    /\ Len(workers) = 2
    /\ reqs[1].attempt = 2
    /\ reqs[1].w = 1
    /\ workers[1].effective_weight = 3
    /\ workers[1].current_weight = -2
    /\ workers[2].current_weight = 2
    /\ now >= workers[1].disabled_until

(***************************************************************************)
(* C38.  With a fixed eligible set and fixed weights, from current_weight  *)
(* 0: every block of SUM w consecutive choose() calls returns each         *)
(* eligible worker i exactly w_i times and brings every current_weight     *)
(* back to 0, so the schedule repeats with period SUM w; and at all times  *)
(* every current_weight lies strictly between -SUM w and SUM w.            *)
(***************************************************************************)
C38_Periodic ==
    LET n == harness.ncalls
        T == TotalWeight
    IN EligibleSet # {} =>
         /\ \A i \in 1..Len(workers) :
               /\ -T < workers[i].current_weight
               /\ workers[i].current_weight < T
         /\ n % T = 0 =>
               \A i \in 1..Len(workers) :
                  /\ workers[i].current_weight = 0
                  /\ workers[i].assigned =
                        (IF i \in EligibleSet THEN (n \div T) * workers[i].effective_weight
                         ELSE 0)

(* Weights 5, 3, 2: after two blocks of ten calls the workers have been    *)
(* returned 10, 6 and 4 times and every current_weight is 0 again.         *)
C38_Witness ==
    /\ WeightsAre(5, 3, 2)
    /\ harness.ncalls = 20
    /\ workers[1].assigned = 10
    /\ workers[2].assigned = 6
    /\ workers[3].assigned = 4
    /\ \A i \in 1..3 : workers[i].current_weight = 0

----------------------------------------------------------------------------
(***************************************************************************)
(* C39.  Each /handle request that runs to a response adds 1 to total      *)
(* exactly once (at its entry) and 1 to exactly one of ok and fail exactly *)
(* once (in the step that answers it), on every path; so, absent a metrics *)
(* reset, total - (ok + fail) equals the number of requests still in       *)
(* progress.  The balance is stated step by step: it holds at start-up and *)
(* every step other than a metrics reset keeps it.                         *)
(***************************************************************************)
Finished(h) == hreqs[h].pc # "done" /\ hreqs'[h].pc = "done"

Responded(h) == Finished(h) /\ hreqs'[h].status # 0

StillInProgress(hs) == Cardinality({h \in DOMAIN hs : hs[h].pc \notin {"idle", "done"}})

Uncounted(rt, hs) == rt.total - (rt.ok + rt.fail) - StillInProgress(hs)

C39_CountedOnce ==
    /\ Uncounted(RT, hreqs) = 0
    /\ [][ /\ \A h \in DOMAIN hreqs :
                /\ Entered(h) => RT'.total = RT.total + 1
                /\ (hreqs'[h] # hreqs[h] /\ ~Entered(h)) => RT'.total = RT.total
                /\ Responded(h) =>
                     \/ RT'.ok = RT.ok + 1 /\ RT'.fail = RT.fail
                     \/ RT'.ok = RT.ok /\ RT'.fail = RT.fail + 1
                /\ (hreqs'[h] # hreqs[h] /\ ~Finished(h)) =>
                     RT'.ok = RT.ok /\ RT'.fail = RT.fail
           /\ ~reset_metrics => Uncounted(RT', hreqs') = Uncounted(RT, hreqs)
         ]_vars

----------------------------------------------------------------------------
(***************************************************************************)
(* Disable windows under concurrent requests: two POST /request handlers   *)
(* of one attempt each, beside the clock, the health prober, the mode      *)
(* switch, the manual weight and the experiment reset.                     *)
(***************************************************************************)
MaxReqD == 2
MaxCtlD == 1

InitWindow ==
    /\ \E n \in PoolSizes :
          workers = [i \in 1..n |->
                       recompute_effective(WorkerState(Host(i), Url(Host(i))), "manual")]
    /\ weight_mode = "manual"
    /\ now = 0
    /\ RETRY_ATTEMPTS = 1
    /\ reqs = IdleReqs(MaxReqD)
    /\ nctl = MaxCtlD
    /\ ctl_resp = None
    /\ harness = NoHarness
    /\ history = None
    /\ RT = NoWorker
    /\ hreqs = <<>>
    /\ Idle

(* The probe rounds of these runs: every worker answers and reports weight *)
(* 2, or every worker fails.  The forwards succeed, time out or are        *)
(* answered 500.                                                           *)
WindowProbes ==
    { [i \in 1..Len(workers) |->
          [err |-> None, worker_id |-> None, weight |-> Some(2), base_lat_ms |-> None]],
      [i \in 1..Len(workers) |->
          [err |-> Some("down"), worker_id |-> None, weight |-> None, base_lat_ms |-> None]] }

WindowOutcomes == {out \in ForwardOutcomes : out.status # 404}

NextWindow ==
    \/ Tick
    \/ \E r \in DOMAIN reqs : ReqChoose(r)
    \/ \E r \in DOMAIN reqs, out \in WindowOutcomes : ReqForwardReturn(r, out)
    \/ \E res \in WindowProbes : HealthTick(res)
    \/ \E m \in Modes : set_weight_mode(m)
    \/ \E id \in FrameIds : set_manual_weight(id, 3)
    \/ \E inp \in ResetInputsOk : reset_experiment(inp)

SpecWindow == InitWindow /\ [][NextWindow]_vars

(***************************************************************************)
(* C40.  A worker whose forward failed at time t with a transport error or *)
(* a 5xx is not returned by choose() at any time in                        *)
(* [t, t + DISABLE_ON_FAIL_SEC) unless POST /experiment/reset intervenes:  *)
(* a successful probe, a mode switch or a weight change inside the window  *)
(* does not re-enable it; and, if it is online, it is eligible again as    *)
(* soon as now >= t + DISABLE_ON_FAIL_SEC.  Step by step: a failed forward *)
(* at time t opens the window that ends at t + DISABLE_ON_FAIL_SEC; while  *)
(* a window is open no step but the reset moves its end; choose() returns  *)
(* no worker whose window is open; and choose() returns none only when no  *)
(* online worker is past its window.                                       *)
(***************************************************************************)
ForwardFailed(r, i) ==
    /\ reqs[r].pc = "forward"
    /\ reqs[r].w = i
    /\ reqs'[r].pc # "forward"
    /\ LET out == reqs'[r].log[Len(reqs'[r].log)].out
       IN  out.raised # None \/ out.status >= 500

WindowOpen(w, t) == t < w.disabled_until

PastWindow(w, t) == w.online /\ w.effective_weight > 0 /\ t >= w.disabled_until

WindowSteps ==
    /\ \A r \in DOMAIN reqs, i \in W :
          ForwardFailed(r, i) => workers'[i].disabled_until = now + DISABLE_ON_FAIL_SEC
    /\ \A r \in DOMAIN reqs :
          Chose(r) =>
             /\ reqs'[r].w # 0 => ~WindowOpen(workers[reqs'[r].w], now)
             /\ reqs'[r].w = 0 => \A i \in W : ~PastWindow(workers[i], now)

C40_WindowEndsOnTime ==
    [][ /\ WindowSteps
        /\ \A i \in W :
             (WindowOpen(workers[i], now) /\ ~ResetStep) =>
                workers'[i].disabled_until = workers[i].disabled_until
      ]_vars

(* The same, with a window that another failed forward of the worker,      *)
(* issued before the window opened, moves to end DISABLE_ON_FAIL_SEC after *)
(* that failure.                                                           *)
C40_WindowEndsAfterLastFailure ==
    [][ /\ WindowSteps
        /\ \A i \in W :
             (WindowOpen(workers[i], now) /\ ~ResetStep) =>
                \/ workers'[i].disabled_until = workers[i].disabled_until
                \/ /\ \E r \in DOMAIN reqs : ForwardFailed(r, i)
                   /\ workers'[i].disabled_until = now + DISABLE_ON_FAIL_SEC
      ]_vars

(* Worker 1 failed a forward at time 0, was probed successfully inside its *)
(* window and stayed out of the second request's choose(); at time         *)
(* DISABLE_ON_FAIL_SEC it is online and past its window.                   *)
C40_Witness ==
    /\ Len(workers) = 2
    /\ now = DISABLE_ON_FAIL_SEC
    /\ workers[1].disabled_until = DISABLE_ON_FAIL_SEC
    /\ workers[1].fail = 1
    /\ workers[1].online
    /\ workers[1].last_seen > 0
    /\ nctl = 0
    /\ reqs[2].pc = "done" /\ reqs[2].log # <<>> /\ reqs[2].log[1].w = 2

====
